---- MODULE Spec2Model ----
(***************************************************************************)
(* A model of the Rpc endpoint of grain-rpc (lib/rpc.ts, latest revision). *)
(*                                                                         *)
(* JavaScript runs one task at a time.  The model keeps the call stack of  *)
(* the running task in `stack`: a frame is either a loop of processQueue   *)
(* that is under way ("drainOut", "drainIn") or user code that the         *)
(* endpoint has called and that has not returned yet ("send": the send     *)
(* callback, "listener": a "message" listener).  While user code runs it   *)
(* may call back into the endpoint (the tests wire two endpoints with      *)
(* sendMessage: (msg) => peer.receiveMessage(msg)), so the operations that *)
(* travel over a channel or are made by handlers (receiveMessage,          *)
(* postMessage, callRemoteFunc, sendReadyMessage, processIncoming) can     *)
(* start with the stack empty or from inside a callback.  The set-up calls *)
(* (setSendMessage, queueOutgoingUntilReadyMessage, queueIncoming) are     *)
(* made between tasks, with the stack empty.                               *)
(***************************************************************************)
EXTENDS Integers, Sequences, FiniteSets, TLC

\* ------------------------------------------------------------- bounds
MaxCalls == 2      \* calls made per endpoint
MaxPosts == 2      \* postMessage / sendReadyMessage calls per endpoint
MaxRecv  == 2      \* envelopes the environment passes to receiveMessage
MaxOps   == 4      \* calls of the endpoints' API in one behaviour
MaxNest  == 1      \* depth of callbacks from which an endpoint is re-entered

MaxFwd   == 2      \* calls and messages in one behaviour of a forwarding or checking spec

\* Request ids an endpoint may use: its own calls and those it forwards.
MaxIds == MaxCalls + 1

Ep == {"A", "B"}

\* The endpoints of a forwarding chain, wired in pairs: A with B, C with D,
\* E with F.  B and C belong to one hop of the chain, D and E to the next: a
\* forwarder registered on B hands envelopes to C, one registered on D to E.
Rpcs == {"A", "B", "C", "D", "E", "F"}

Peer(e) ==
  CASE e = "A" -> "B"
    [] e = "B" -> "A"
    [] e = "C" -> "D"
    [] e = "D" -> "C"
    [] e = "E" -> "F"
    [] OTHER -> "E"

\* ------------------------------------------------------------- envelopes
\* message.ts: the tagged union.  reqId 0 stands for an absent reqId; data
\* holds iface (RpcCall), data (RpcRespData, Custom) or code (RpcRespErr).
\* meth, args and mdest are the fields of a call (mdest also of a Custom
\* message), mesg the message of an error response; "" stands for an absent
\* field.  args is "ok" if the arguments satisfy the interface's typed
\* checker and "bad" if they do not.
\* The field n is not on the wire: it numbers the envelope in the order it
\* was handed to _sendMessage (outbound) or to receiveMessage (inbound).
Env(mtype, reqId, data) ==
  [mtype |-> mtype, reqId |-> reqId, data |-> data, meth |-> "", args |-> "",
   mdest |-> "", mesg |-> "", n |-> 0]

\* IMsgRpcCall
MsgCall(reqId, iface, meth, args, mdest) ==
  [Env("RpcCall", reqId, iface) EXCEPT !.meth = meth, !.args = args, !.mdest = mdest]

\* IMsgRpcRespErr
MsgRespErr(reqId, code, mesg) == [Env("RpcRespErr", reqId, code) EXCEPT !.mesg = mesg]

\* IMsgCustom
MsgCustom(data, mdest) == [Env("Custom", 0, data) EXCEPT !.mdest = mdest]

NoMsg == Env("none", 0, "")

\* ------------------------------------------------------------- state
VARIABLES
  sendMessageCB,        \* _sendMessageCB: "null" or the installed function
  inactiveRecvQueue,    \* _inactiveRecvQueue: [null, items]
  inactiveSendQueue,    \* _inactiveSendQueue: [null, items]
  waitForReadyMessage,  \* _waitForReadyMessage
  implMap,              \* _implMap: the entries registered
  forwarders,           \* _forwarders: the entries registered
  pendingCalls,         \* keys of _pendingCalls
  nextRequestId,        \* _nextRequestId
  promise,              \* the promise _makeCallRaw returned for each reqId
  stack,                \* the call stack of the running task
  sendPromises,         \* promises returned by a send callback, still to reject
  implPromises,         \* results of implementations that _onMessageCall awaits
  wire,                 \* envelopes a send callback has put on the channel
  sentLog,              \* envelopes passed to the send callback, in order
  handLog,              \* envelopes handed to _sendMessage, in order
  recvLog,              \* envelopes passed to receiveMessage, in order
  dispatchLog,          \* envelopes given to _dispatch, in order
  invokeLog,            \* calls given to a local implementation, with what it did
  fwdLog,               \* calls given to a forwarder, with the call made for each
  warnLog,              \* codes given to the logger's warn by _failCall, in order
  callWrapper,          \* _callWrapper: "plainCall" or what the configured wrapper does
  wrapped,              \* inner functions given to a wrapper and not invoked yet
  wrapLog,              \* calls of the configured wrapper, in order
  postPromise,          \* the promise postMessageForward returned for each envelope handed
  steps,                \* Node._steps with Link.distances: per node and endpoint name
  mine,                 \* Node._mine: the endpoints attached to each node
  queue,                \* Node._queue of each node
  inFlight,             \* messages a link's sendMessage holds, per link, in order
  serving,              \* calls an attached Rpc received and has not replied to
  asked,                \* the promise of each call made on a connected Rpc
  messageEvents,        \* data of each "message" event emitted, in order
  errorEvents,          \* number of "error" events emitted
  thrown,               \* the error thrown in the last step ("" if none)
  caughtBy,             \* where that error ended
  ops                   \* number of API calls made

rpcVars == <<sendMessageCB, inactiveRecvQueue, inactiveSendQueue, waitForReadyMessage,
          implMap, forwarders, pendingCalls, nextRequestId, promise, stack, sendPromises,
          implPromises, wire, sentLog, handLog, recvLog, dispatchLog, invokeLog,
          fwdLog, warnLog, callWrapper, wrapped, wrapLog, postPromise,
          messageEvents, errorEvents, thrown, caughtBy, ops>>

nodeVars == <<steps, mine, queue, inFlight, serving, asked>>

vars == <<rpcVars, nodeVars>>

\* The state as one record, so that a handler's statements compose in order.
Cur ==
  [cb |-> sendMessageCB, recvQ |-> inactiveRecvQueue, sendQ |-> inactiveSendQueue,
   wait |-> waitForReadyMessage, implMap |-> implMap, forwarders |-> forwarders,
   pending |-> pendingCalls,
   nextId |-> nextRequestId, promise |-> promise, stack |-> stack,
   sendPromises |-> sendPromises, implPromises |-> implPromises, wire |-> wire,
   sentLog |-> sentLog, handLog |-> handLog, recvLog |-> recvLog,
   dispatchLog |-> dispatchLog, invokeLog |-> invokeLog, fwdLog |-> fwdLog,
   warnLog |-> warnLog, callWrapper |-> callWrapper, wrapped |-> wrapped,
   wrapLog |-> wrapLog, postPromise |-> postPromise,
   messageEvents |-> messageEvents,
   errorEvents |-> errorEvents, thrown |-> "", caughtBy |-> "", ops |-> ops]

Apply(s) ==
  /\ sendMessageCB' = s.cb
  /\ inactiveRecvQueue' = s.recvQ
  /\ inactiveSendQueue' = s.sendQ
  /\ waitForReadyMessage' = s.wait
  /\ implMap' = s.implMap
  /\ forwarders' = s.forwarders
  /\ pendingCalls' = s.pending
  /\ nextRequestId' = s.nextId
  /\ promise' = s.promise
  /\ stack' = s.stack
  /\ sendPromises' = s.sendPromises
  /\ implPromises' = s.implPromises
  /\ wire' = s.wire
  /\ sentLog' = s.sentLog
  /\ handLog' = s.handLog
  /\ recvLog' = s.recvLog
  /\ dispatchLog' = s.dispatchLog
  /\ invokeLog' = s.invokeLog
  /\ fwdLog' = s.fwdLog
  /\ warnLog' = s.warnLog
  /\ callWrapper' = s.callWrapper
  /\ wrapped' = s.wrapped
  /\ wrapLog' = s.wrapLog
  /\ postPromise' = s.postPromise
  /\ messageEvents' = s.messageEvents
  /\ errorEvents' = s.errorEvents
  /\ thrown' = s.thrown
  /\ caughtBy' = s.caughtBy
  /\ ops' = s.ops
  /\ UNCHANGED nodeVars

NullQueue == [null |-> TRUE, items |-> <<>>]
EmptyQueue == [null |-> FALSE, items |-> <<>>]

\* A promise: st is its state; code is the value it resolved to or the code
\* of the error it rejected with, mesg that error's message; chk is the
\* resultChecker kept with the pending call.
NoPromise == [st |-> "none", code |-> "", mesg |-> "", chk |-> ""]

\* ------------------------------------------------------------- frames
\* k: the kind; e: the endpoint; msg: the envelope a callback was given;
\* origin: the caller of _sendMessageOrReject; i: processQueue's index;
\* cb: the send callback bound to the drain or running; swallow: the drain
\* was started by the Ready case of _dispatch, which catches;
\* tx: the send callback has put msg on the channel.  A drain's origin is
\* the caller of _processOutgoing.
Frame(k, e, msg, origin, cb, swallow) ==
  [k |-> k, e |-> e, msg |-> msg, origin |-> origin, i |-> 0, cb |-> cb,
   swallow |-> swallow, tx |-> FALSE]

UserFrames == {"send", "listener"}

Top(st) == st[Len(st)]
Pop(st) == SubSeq(st, 1, Len(st) - 1)
Push(st, f) == Append(st, f)
SetTop(st, f) == [st EXCEPT ![Len(st)] = f]

NumUser(st) == Cardinality({j \in 1..Len(st) : st[j].k \in UserFrames})

\* queue.splice(0, i)
Splice(items, i) == SubSeq(items, i + 1, Len(items))

\* ------------------------------------------------------------- promises
\* resolve / reject of a JavaScript promise: only the first call settles it.
SettleWith(p, st, code, mesg) ==
  IF p.st = "pending" THEN [p EXCEPT !.st = st, !.code = code, !.mesg = mesg] ELSE p

Settle(p, st, code) == SettleWith(p, st, code, "")

\* The promise of the async function postMessageForward, which awaits what
\* _sendMessage returns for its envelope: "pending", "resolved" or
\* "rejected"; "none" for an envelope that another caller handed over.
PostSettles(s, e, msg, origin, st) ==
  IF origin = "post" /\ s.postPromise[e][msg.n] = "pending"
  THEN [s EXCEPT !.postPromise[e][msg.n] = st]
  ELSE s

\* ------------------------------------------------------------- send path
\* `Send failed: ${err.message}`, for the error "down" of a send function.
SendFailedMesg == "Send failed: " \o "down"

\* A variant of _sendReject that leaves the pending call alone.
sendRejectKeepsCall(s, e, msg) ==
  [s EXCEPT !.errorEvents[e] = @ + 1, !.thrown = "RPC_SEND_FAILED"]

\* _sendReject, up to its final throw.
sendReject(s, e, msg) ==
  LET s1 == IF msg.mtype = "RpcCall" /\ msg.reqId # 0 /\ msg.reqId \in s.pending[e]
            THEN [s EXCEPT !.pending[e] = @ \ {msg.reqId},
                           !.promise[e][msg.reqId] = SettleWith(@, "rejected", "RPC_SEND_FAILED", SendFailedMesg)]
            ELSE s
  IN [s1 EXCEPT !.errorEvents[e] = @ + 1, !.thrown = "RPC_SEND_FAILED"]

\* A variant of sendThrow whose processQueue advances its index after the
\* call, so that the envelope whose send threw stays in the queue.
sendThrowKeepsFailed(s, e, msg, origin) ==
  LET s1 == sendReject(s, e, msg) IN
  CASE origin = "drain" ->
         LET f == Top(s1.stack) IN
         [s1 EXCEPT !.sendQ[e].items = Splice(@, f.i - 1),
                    !.stack = Pop(@),
                    !.caughtBy = IF f.swallow THEN "_dispatch" ELSE "caller"]
    [] origin = "call" ->
         [s1 EXCEPT !.promise[e][msg.reqId] = SettleWith(@, "rejected", "RPC_SEND_FAILED", SendFailedMesg),
                    !.caughtBy = "_makeCallRaw"]
    [] origin = "ready" -> [s1 EXCEPT !.caughtBy = "caller"]
    [] OTHER -> [PostSettles(s1, e, msg, origin, "rejected") EXCEPT !.caughtBy = "promise"]

\* The error _sendReject throws, on its way up from the place the send
\* callback was called.  From processQueue (origin "drain"): the finally
\* clause, then _processOutgoing's caller, which is setSendMessage's caller
\* or the try/catch of the Ready case.  From _sendMessage: the catch of
\* _makeCallRaw ("call"), an async function ("post", "resp"), or the caller
\* of sendReadyMessage ("ready").  Called with the send frame popped.
sendThrow(s, e, msg, origin) ==
  LET s1 == sendReject(s, e, msg) IN
  CASE origin = "drain" ->
         LET f == Top(s1.stack) IN
         [s1 EXCEPT !.sendQ[e].items = Splice(@, f.i),
                    !.stack = Pop(@),
                    !.caughtBy = IF f.swallow THEN "_dispatch" ELSE "caller"]
    [] origin = "call" ->
         [s1 EXCEPT !.promise[e][msg.reqId] = SettleWith(@, "rejected", "RPC_SEND_FAILED", SendFailedMesg),
                    !.caughtBy = "_makeCallRaw"]
    [] origin = "ready" -> [s1 EXCEPT !.caughtBy = "caller"]
    [] OTHER -> [PostSettles(s1, e, msg, origin, "rejected") EXCEPT !.caughtBy = "promise"]

\* _sendMessageOrReject: call the send callback.  Calling a null callback is
\* a TypeError, which catchMaybePromise hands to _sendReject like any throw.
sendMessageOrReject(s, e, cb, msg, origin) ==
  IF cb = "null"
  THEN sendThrow(s, e, msg, origin)
  ELSE [s EXCEPT !.sentLog[e] = Append(@, msg),
                 !.stack = Push(@, Frame("send", e, msg, origin, cb, FALSE))]

\* A variant of _sendMessage that queues only while no send function is
\* installed or the endpoint waits for Ready.
sendMessageIfInstalled(s, e, msg0, origin) ==
  LET msg == [msg0 EXCEPT !.n = Len(s.handLog[e]) + 1]
      s1 == [s EXCEPT !.handLog[e] = Append(@, msg),
                      !.postPromise[e] = Append(@, IF origin = "post" THEN "pending" ELSE "none")]
  IN IF ~s1.sendQ[e].null /\ (s1.cb[e] = "null" \/ s1.wait[e])
     THEN PostSettles([s1 EXCEPT !.sendQ[e].items = Append(@, msg)], e, msg, origin, "resolved")
     ELSE sendMessageOrReject(s1, e, s1.cb[e], msg, origin)

\* A variant of _sendMessage that returns, for an envelope it queues, a
\* promise that waits for the envelope to be sent.
sendMessageWaitsForQueued(s, e, msg0, origin) ==
  LET msg == [msg0 EXCEPT !.n = Len(s.handLog[e]) + 1]
      s1 == [s EXCEPT !.handLog[e] = Append(@, msg),
                      !.postPromise[e] = Append(@, IF origin = "post" THEN "pending" ELSE "none")]
  IN IF ~s1.sendQ[e].null
     THEN [s1 EXCEPT !.sendQ[e].items = Append(@, msg)]
     ELSE sendMessageOrReject(s1, e, s1.cb[e], msg, origin)

\* _sendMessage.  It returns undefined for an envelope it queues: the
\* await of postMessageForward has nothing to wait for.
sendMessage(s, e, msg0, origin) ==
  LET msg == [msg0 EXCEPT !.n = Len(s.handLog[e]) + 1]
      s1 == [s EXCEPT !.handLog[e] = Append(@, msg),
                      !.postPromise[e] = Append(@, IF origin = "post" THEN "pending" ELSE "none")]
  IN IF ~s1.sendQ[e].null
     THEN PostSettles([s1 EXCEPT !.sendQ[e].items = Append(@, msg)], e, msg, origin, "resolved")
     ELSE sendMessageOrReject(s1, e, s1.cb[e], msg, origin)

\* _queueOutgoing
queueOutgoing(s, e) ==
  IF s.sendQ[e].null THEN [s EXCEPT !.sendQ[e] = EmptyQueue] ELSE s

\* _processOutgoing: starts processQueue over the outbound queue.  by names
\* the caller: "setSendMessage", or the Ready case of _dispatch, "opened" if
\* that Ready ended a wait and "ready" if the endpoint was not waiting.
processOutgoing(s, e, by) ==
  IF ~s.sendQ[e].null /\ s.cb[e] # "null" /\ ~s.wait[e]
  THEN [s EXCEPT !.stack = Push(@, Frame("drainOut", e, NoMsg, by, s.cb[e],
                                         by # "setSendMessage"))]
  ELSE s

\* ------------------------------------------------------------- public API
\* setSendMessage
setSendMessage(s, e, cb) ==
  LET s1 == [s EXCEPT !.cb[e] = cb] IN
  IF cb # "null" THEN processOutgoing(s1, e, "setSendMessage") ELSE queueOutgoing(s1, e)

\* queueOutgoingUntilReadyMessage
queueOutgoingUntilReadyMessage(s, e) ==
  queueOutgoing([s EXCEPT !.wait[e] = TRUE], e)

\* sendReadyMessage
sendReadyMessage(s, e) == sendMessage(s, e, Env("Ready", 0, ""), "ready")

\* postMessageForward
postMessageForward(s, e, fwdDest, data) ==
  sendMessage(s, e, MsgCustom(data, fwdDest), "post")

\* postMessage
postMessage(s, e, data) == postMessageForward(s, e, "", data)

\* rpc.close(), which the module's documentation tells the user to call to
\* reject the calls waiting for an answer.  Class Rpc has no member of that
\* name: the call throws a TypeError and changes nothing.
close(s, e) == [s EXCEPT !.thrown = "TypeError", !.caughtBy = "caller"]

\* ------------------------------------------------------------- registry
\* An entry of _implMap or of _forwarders (interface Implementation), under
\* its key name.  checker: "none" (argsCheckers is null), "any"
\* (checkerAnyFunc: every argument list passes) or "typed" (a checker of the
\* interface: args "bad" fails); meths: the keys of argsCheckers; has: the
\* methods the registered object has; dest, fwdDest: a forwarder's
\* destination endpoint and its policy.
ImplEntry(name, checker, meths, has) ==
  [name |-> name, checker |-> checker, meths |-> meths, has |-> has,
   dest |-> "", fwdDest |-> ""]

\* A variant of registerImpl that replaces the entry of a name in use.
registerImplReplaces(s, e, name, checker, meths, has) ==
  [s EXCEPT !.implMap[e] =
     {i \in @ : i.name # name} \cup {ImplEntry(name, checker, meths, has)}]

\* registerImpl: throws if the name is registered already.
registerImpl(s, e, name, checker, meths, has) ==
  IF \E i \in s.implMap[e] : i.name = name
  THEN [s EXCEPT !.thrown = "Error", !.caughtBy = "caller"]
  ELSE [s EXCEPT !.implMap[e] = @ \cup {ImplEntry(name, checker, meths, has)}]

\* registerFunc: registerImpl(name, {invoke: impl}, checkerAnyFunc)
registerFunc(s, e, name) == registerImpl(s, e, name, "any", {"invoke"}, {"invoke"})

\* The entry registerFunc makes.
FuncEntry(name) == ImplEntry(name, "any", {"invoke"}, {"invoke"})

\* unregisterImpl: this._implMap.delete(name)
unregisterImpl(s, e, name) == [s EXCEPT !.implMap[e] = {i \in @ : i.name # name}]

\* unregisterFunc: unregisterImpl(name)
unregisterFunc(s, e, name) == unregisterImpl(s, e, name)

\* A variant of the default that delivers locally for every name.
defaultFwdDestLocal(fwdName) == ""

\* The default of registerForwarder's parameter fwdDest.
defaultFwdDest(fwdName) == IF fwdName = "*" THEN "*" ELSE ""

\* registerForwarder: Map.set replaces an entry of the same name.
registerForwarder(s, e, fwdName, dest, fwdDest) ==
  [s EXCEPT !.forwarders[e] =
     {i \in @ : i.name # fwdName} \cup
     {[name |-> fwdName, checker |-> "none", meths |-> {}, has |-> {},
       dest |-> dest, fwdDest |-> fwdDest]}]

\* Map.get(key): the entries under the key (none or one).
Get(map, key) == {i \in map : i.name = key}

\* A variant of the forwarder look-up that prefers the wildcard forwarder.
GetForwarderWildFirst(map, mdest) ==
  IF Get(map, "*") # {} THEN Get(map, "*") ELSE Get(map, mdest)

\* this._forwarders.get(mdest) || this._forwarders.get("*")
GetForwarder(map, mdest) ==
  IF Get(map, mdest) # {} THEN Get(map, mdest) ELSE Get(map, "*")

\* A variant of the forwarder's rewriting that has no pass-through.
ForwardedNoPassThru(impl, msg) == [msg EXCEPT !.mdest = impl.fwdDest]

\* {...c, mdest: passThru ? c.mdest : fwdDest}
Forwarded(impl, msg) ==
  [msg EXCEPT !.mdest = IF impl.fwdDest = "*" THEN msg.mdest ELSE impl.fwdDest]

\* ------------------------------------------------------------- calls
\* What an implementation does: it returns (or resolves to) the value code,
\* or throws (or rejects with) an error with code and mesg.
Returns(v) == [throws |-> FALSE, code |-> v, mesg |-> ""]
Throws(c, m) == [throws |-> TRUE, code |-> c, mesg |-> m]

\* impl[call.meth](...call.args) where the object has no such method.
NotAFunction == Throws("", "is not a function")

\* A variant of _makeCallRaw that does not advance _nextRequestId.
makeCallRawSameId(s, e, iface, meth, args, resultChecker, fwdDest) ==
  LET reqId == s.nextId[e]
      s1 == [s EXCEPT !.pending[e] = @ \cup {reqId},
                      !.promise[e][reqId] =
                         [st |-> "pending", code |-> "", mesg |-> "", chk |-> resultChecker]]
  IN sendMessage(s1, e, MsgCall(reqId, iface, meth, args, fwdDest), "call")

\* _makeCallRaw: the inner function that _makeCall gives to the wrapper
makeCallRaw(s, e, iface, meth, args, resultChecker, fwdDest) ==
  LET reqId == s.nextId[e]
      s1 == [s EXCEPT !.nextId[e] = @ + 1,
                      !.pending[e] = @ \cup {reqId},
                      !.promise[e][reqId] =
                         [st |-> "pending", code |-> "", mesg |-> "", chk |-> resultChecker]]
  IN sendMessage(s1, e, MsgCall(reqId, iface, meth, args, fwdDest), "call")

\* The inner function () => this._makeCallRaw(iface, meth, args,
\* resultChecker, fwdDest) of the n-th call of endpoint e's wrapper; srv is
\* the inbound call that a forwarder is serving with it, if any.
Inner(e, n, iface, meth, args, resultChecker, fwdDest) ==
  [e |-> e, n |-> n, iface |-> iface, meth |-> meth, args |-> args,
   chk |-> resultChecker, fwdDest |-> fwdDest, srv |-> [e |-> "", call |-> NoMsg]]

\* A variant of _makeCall that does not go through the wrapper.
makeCallUnwrapped(s, e, iface, meth, args, resultChecker, fwdDest) ==
  makeCallRaw(s, e, iface, meth, args, resultChecker, fwdDest)

\* _makeCall: this._callWrapper(() => this._makeCallRaw(...)).  plainCall
\* invokes the inner function and returns its promise.  A configured
\* wrapper is user code: it invokes the inner function before it returns
\* ("now", as the wrapper of the tests does), or it returns a promise of
\* its own and keeps the inner function for a later task ("later").
makeCall(s, e, iface, meth, args, resultChecker, fwdDest) ==
  LET inner == Inner(e, Len(s.wrapLog[e]) + 1, iface, meth, args, resultChecker, fwdDest)
      s1 == [s EXCEPT !.wrapLog[e] = Append(@, inner)]
  IN CASE s.callWrapper[e] = "plainCall" ->
            makeCallRaw(s, e, iface, meth, args, resultChecker, fwdDest)
       [] s.callWrapper[e] = "now" ->
            makeCallRaw(s1, e, iface, meth, args, resultChecker, fwdDest)
       [] OTHER -> [s1 EXCEPT !.wrapped = @ \cup {inner}]

\* callRemoteFuncForward: _makeCall(name, "invoke", args, anyChecker, fwdDest)
callRemoteFuncForward(s, e, fwdDest, name, args) ==
  makeCall(s, e, name, "invoke", args, "any", fwdDest)

\* A name as the user writes it is a sequence of pieces of text, of which
\* "@" is the character that _parseName looks for; ToStr is the string.
RECURSIVE ToStr(_)
ToStr(nm) == IF nm = <<>> THEN "" ELSE Head(nm) \o ToStr(Tail(nm))

\* A variant of _parseName that splits the name at its first "@".
parseNameFirstAt(nm) ==
  LET at == {i \in 1..Len(nm) : nm[i] = "@"} IN
  IF at = {}
  THEN [forwarder |-> <<>>, name |-> nm]
  ELSE LET idx == CHOOSE i \in at : \A j \in at : i <= j
       IN [name |-> SubSeq(nm, 1, idx - 1), forwarder |-> SubSeq(nm, idx + 1, Len(nm))]

\* _parseName: name.lastIndexOf("@"), substr(0, idx) and substr(idx + 1)
parseName(nm) ==
  LET at == {i \in 1..Len(nm) : nm[i] = "@"} IN
  IF at = {}
  THEN [forwarder |-> <<>>, name |-> nm]
  ELSE LET idx == CHOOSE i \in at : \A j \in at : i >= j
       IN [name |-> SubSeq(nm, 1, idx - 1), forwarder |-> SubSeq(nm, idx + 1, Len(nm))]

\* callRemoteFunc: callRemoteFuncForward(parts.forwarder, parts.name, ...args)
callRemoteFunc(s, e, nm, args) ==
  LET parts == parseName(nm) IN
  callRemoteFuncForward(s, e, ToStr(parts.forwarder), ToStr(parts.name), args)

\* A method of the stub that getStubForward(fwdDest, name) returns without a
\* checker: _makeCall(name, property, args, anyChecker, fwdDest)
stubCallForward(s, e, fwdDest, name, meth, args) ==
  makeCall(s, e, name, meth, args, "any", fwdDest)

\* A method of the stub that getStub(name) returns without a checker, for a
\* name as the user writes it: getStubForward(parts.forwarder, parts.name)
getStubCall(s, e, nm, meth, args) ==
  LET parts == parseName(nm) IN
  stubCallForward(s, e, ToStr(parts.forwarder), ToStr(parts.name), meth, args)

\* A method of the stub that getStub(name) returns without a checker:
\* _makeCall(name, property, args, anyChecker, fwdDest)
stubCall(s, e, name, meth, args) == makeCall(s, e, name, meth, args, "any", "")

\* A method of the stub that getStub(name, checker) returns for the checker
\* of ICalc: the stub has the methods of the interface only, each with the
\* method's result checker; calling another one is a TypeError.
checkedStubCall(s, e, name, meth, args) ==
  IF meth = "add"
  THEN makeCall(s, e, name, meth, args, "typed", "")
  ELSE [s EXCEPT !.thrown = "TypeError", !.caughtBy = "caller"]

\* forwardCall: _makeCall(c.iface, c.meth, c.args, anyChecker, c.mdest || "")
forwardCall(s, e, c) == makeCall(s, e, c.data, c.meth, c.args, "any", c.mdest)

\* forwardMessage: postMessageForward(msg.mdest || "", msg.data)
forwardMessage(s, e, msg) == postMessageForward(s, e, msg.mdest, msg.data)

\* A variant of the result check that lets every value pass.
ResultOkAlways(chk, data) == TRUE

\* resultChecker.check(resp.data): a typed checker rejects the value "invalid".
ResultOk(chk, data) == chk # "typed" \/ data # "invalid"

\* A variant of _onMessageResp that treats a response to an unknown reqId as
\* a failure of the channel: it emits an "error" event.
onMessageRespUnknownIsError(s, e, resp) ==
  IF resp.reqId \notin s.pending[e]
  THEN [s EXCEPT !.errorEvents[e] = @ + 1]
  ELSE LET s1 == [s EXCEPT !.pending[e] = @ \ {resp.reqId}] IN
       IF resp.mtype = "RpcRespErr"
       THEN [s1 EXCEPT !.promise[e][resp.reqId] =
                          SettleWith(@, "rejected", resp.data, resp.mesg)]
       ELSE [s1 EXCEPT !.promise[e][resp.reqId] = Settle(@, "resolved", resp.data)]

\* A variant of _onMessageResp that matches a response to the oldest pending
\* call instead of the call with its reqId.
onMessageRespOldest(s, e, resp) ==
  IF resp.reqId \notin s.pending[e]
  THEN s
  ELSE LET r == CHOOSE q \in s.pending[e] : \A q2 \in s.pending[e] : q <= q2
           s1 == [s EXCEPT !.pending[e] = @ \ {r}]
       IN IF resp.mtype = "RpcRespErr"
          THEN [s1 EXCEPT !.promise[e][r] = SettleWith(@, "rejected", resp.data, resp.mesg)]
          ELSE [s1 EXCEPT !.promise[e][r] = Settle(@, "resolved", resp.data)]

\* A variant of _onMessageResp that drops an error response.
onMessageRespDropsError(s, e, resp) ==
  IF resp.reqId \notin s.pending[e]
  THEN s
  ELSE LET s1 == [s EXCEPT !.pending[e] = @ \ {resp.reqId}] IN
       IF resp.mtype = "RpcRespErr"
       THEN s1
       ELSE [s1 EXCEPT !.promise[e][resp.reqId] = Settle(@, "resolved", resp.data)]

\* _onMessageResp
onMessageResp(s, e, resp) ==
  IF resp.reqId \notin s.pending[e]
  THEN s
  ELSE LET s1 == [s EXCEPT !.pending[e] = @ \ {resp.reqId}] IN
       IF resp.mtype = "RpcRespErr"
       THEN [s1 EXCEPT !.promise[e][resp.reqId] =
                          SettleWith(@, "rejected", resp.data, resp.mesg)]
       ELSE IF ~ResultOk(s.promise[e][resp.reqId].chk, resp.data)
       THEN [s1 EXCEPT !.promise[e][resp.reqId] =
                          SettleWith(@, "rejected", "RPC_INVALID_RESULT", "invalid result")]
       ELSE [s1 EXCEPT !.promise[e][resp.reqId] = Settle(@, "resolved", resp.data)]

\* A variant of _onCustomMessage that emits locally a message for which
\* there is no forwarder.
onCustomMessageEmitsUnrouted(s, e, msg) ==
  LET impls == GetForwarder(s.forwarders[e], msg.mdest) IN
  IF msg.mdest # "" /\ impls # {}
  THEN LET impl == CHOOSE i \in impls : TRUE
       IN forwardMessage(s, impl.dest, Forwarded(impl, msg))
  ELSE [s EXCEPT !.messageEvents[e] = Append(@, msg.data),
                 !.stack = Push(@, Frame("listener", e, msg, "", "", FALSE))]

\* _onCustomMessage: a message with mdest goes to a forwarder, which passes
\* it to its destination endpoint; emit("message", data) runs the listener.
onCustomMessage(s, e, msg) ==
  IF msg.mdest # ""
  THEN LET impls == GetForwarder(s.forwarders[e], msg.mdest) IN
       IF impls = {}
       THEN s
       ELSE LET impl == CHOOSE i \in impls : TRUE
            IN forwardMessage(s, impl.dest, Forwarded(impl, msg))
  ELSE [s EXCEPT !.messageEvents[e] = Append(@, msg.data),
                 !.stack = Push(@, Frame("listener", e, msg, "", "", FALSE))]

\* A variant of _failCall that answers a call without reqId as well.
failCallAlwaysResponds(s, e, call, code, mesg, reportCode) ==
  LET s1 == [s EXCEPT !.warnLog[e] = Append(@, IF reportCode # "" THEN reportCode ELSE code)]
  IN sendMessage(s1, e, MsgRespErr(call.reqId, code, mesg), "resp")

\* _failCall: this._warn(call, reportCode || code, mesg), then the response.
failCall(s, e, call, code, mesg, reportCode) ==
  LET s1 == [s EXCEPT !.warnLog[e] = Append(@, IF reportCode # "" THEN reportCode ELSE code)]
  IN IF call.reqId # 0
     THEN sendMessage(s1, e, MsgRespErr(call.reqId, code, mesg), "resp")
     ELSE s1

\* _sendResponse
sendResponse(s, e, reqId, data) ==
  sendMessage(s, e, Env("RpcRespData", reqId, data), "resp")

\* The argument lists that the calls carry, by name: add(4, 5),
\* add("hello", 5), add(), add(1) and add(10, 9, 8), each as the types of its
\* values.
ArgList(args) ==
  CASE args = "ok" -> <<"number", "number">>
    [] args = "bad" -> <<"string", "number">>
    [] args = "none" -> <<>>
    [] args = "one" -> <<"number">>
    [] OTHER -> <<"number", "number", "number">>

\* ICalc: add(x: number, y: number)
CalcAddParams == <<"number", "number">>

\* A variant of the argument checker that rejects a list longer than the
\* parameter list.
ArgsErrorStrict(params, a) ==
  LET failing == {i \in 1..Len(params) : IF i > Len(a) THEN TRUE ELSE a[i] # params[i]}
  IN IF failing # {}
     THEN LET i == CHOOSE k \in failing : \A k2 \in failing : k <= k2
          IN IF i > Len(a) THEN "is missing" ELSE "is not a number"
     ELSE IF Len(a) > Len(params) THEN "is extraneous"
     ELSE ""

\* checker.methodArgs(meth).check(args): the message of the error it throws,
\* "" if it passes.  The parameters are checked in their order, each against
\* the value at its position; values beyond the last parameter are not
\* looked at.
ArgsError(params, a) ==
  LET failing == {i \in 1..Len(params) : IF i > Len(a) THEN TRUE ELSE a[i] # params[i]}
  IN IF failing = {}
     THEN ""
     ELSE LET i == CHOOSE k \in failing : \A k2 \in failing : k <= k2
          IN IF i > Len(a) THEN "is missing" ELSE "is not a number"

\* A variant of the checks that looks at the reqId first.
CallCheckReqIdFirst(impl, call) ==
  IF call.reqId = 0 THEN "RPC_MISSING_REQID"
  ELSE IF impl.checker # "none" /\ call.meth \notin impl.meths THEN "RPC_UNKNOWN_METHOD"
  ELSE IF impl.checker = "typed" /\ ArgsError(CalcAddParams, ArgList(call.args)) # ""
  THEN "RPC_INVALID_ARGS"
  ELSE ""

\* The checks of _onMessageCall on a call for the implementation impl, in
\* their order: the code of the first that fails, "" if all pass.
CallCheck(impl, call) ==
  IF impl.checker # "none" /\ call.meth \notin impl.meths THEN "RPC_UNKNOWN_METHOD"
  ELSE IF impl.checker = "typed" /\ ArgsError(CalcAddParams, ArgList(call.args)) # ""
  THEN "RPC_INVALID_ARGS"
  ELSE IF call.reqId = 0 THEN "RPC_MISSING_REQID"
  ELSE ""

\* The message given to _failCall with the code; for invalid arguments,
\* `Invalid args: ${e.message}`, here the checker's message.
CheckMesg(code, call) ==
  CASE code = "RPC_UNKNOWN_METHOD" -> "Unknown method"
    [] code = "RPC_INVALID_ARGS" -> ArgsError(CalcAddParams, ArgList(call.args))
    [] OTHER -> "Missing request id"

\* A variant of invokeImpl in which a method that the registered object does
\* not have fails with the code UNKNOWN_METHOD.
invokeImplUnknownMethod(s, e, impl, call, result) ==
  LET r == IF call.meth \in impl.has THEN result
           ELSE Throws("UNKNOWN_METHOD", "Unknown method") IN
  [s EXCEPT !.implPromises = @ \cup
              {[e |-> e, call |-> call, result |-> r, dest |-> "", req |-> 0]},
            !.invokeLog[e] = Append(@, [call |-> call, result |-> r])]

\* impl.invokeImpl(call): a forwarder makes the call on its destination
\* endpoint and returns that call's promise; a local implementation runs
\* the object's method, which does what result says.  The promise that
\* _onMessageCall then awaits is kept in implPromises.
invokeImpl(s, e, impl, call, result) ==
  IF impl.dest # ""
  THEN LET s1 == forwardCall(s, impl.dest, Forwarded(impl, call))
           req == IF s1.nextId[impl.dest] = s.nextId[impl.dest]
                  THEN 0 ELSE s.nextId[impl.dest]
       IN
       [s1 EXCEPT !.implPromises = @ \cup
                    {[e |-> e, call |-> call, result |-> Returns(""),
                      dest |-> impl.dest, req |-> req]},
                  !.fwdLog = @ \cup
                    {[e |-> e, call |-> call, dest |-> impl.dest, req |-> req]},
                  !.wrapped = {IF w \in s.wrapped THEN w
                               ELSE [w EXCEPT !.srv = [e |-> e, call |-> call]] : w \in @}]
  ELSE LET r == IF call.meth \in impl.has THEN result ELSE NotAFunction IN
       [s EXCEPT !.implPromises = @ \cup
                   {[e |-> e, call |-> call, result |-> r, dest |-> "", req |-> 0]},
                 !.invokeLog[e] = Append(@, [call |-> call, result |-> r])]

\* The wrapper of endpoint w.e invokes the inner function w that it kept:
\* _makeCallRaw runs, and the promise the wrapper returned follows the
\* promise of the call.  If a forwarder made the call for an inbound call,
\* that is the promise its _onMessageCall awaits.
innerInvoked(s, w) ==
  LET req == s.nextId[w.e]
      s1 == makeCallRaw([s EXCEPT !.wrapped = @ \ {w}], w.e, w.iface, w.meth, w.args,
                        w.chk, w.fwdDest)
      Link(p) == IF p.dest = w.e /\ p.req = 0 /\ [e |-> p.e, call |-> p.call] = w.srv
                 THEN [p EXCEPT !.req = req] ELSE p
  IN [s1 EXCEPT !.implPromises = {Link(p) : p \in @},
                !.fwdLog = {Link(f) : f \in @}]

\* A variant of _onMessageCall in which an endpoint checks a call that it
\* is to forward against its own registrations first.
onMessageCallChecksForwarded(s, e, call, result) ==
  LET fwd == GetForwarder(s.forwarders[e], call.mdest)
      own == Get(s.implMap[e], call.data)
  IN IF call.mdest = ""
     THEN IF own = {}
          THEN failCall(s, e, call, "RPC_UNKNOWN_INTERFACE", "Unknown interface", "")
          ELSE LET impl == CHOOSE i \in own : TRUE
                   code == CallCheck(impl, call)
               IN IF code # ""
                  THEN failCall(s, e, call, code, CheckMesg(code, call), "")
                  ELSE invokeImpl(s, e, impl, call, result)
     ELSE IF fwd = {}
          THEN failCall(s, e, call, "RPC_UNKNOWN_FORWARD_DEST",
                        "Unknown forward destination", "")
          ELSE IF own = {}
               THEN failCall(s, e, call, "RPC_UNKNOWN_INTERFACE", "Unknown interface", "")
               ELSE LET code == CallCheck(CHOOSE i \in own : TRUE, call)
                    IN IF code # ""
                       THEN failCall(s, e, call, code, CheckMesg(code, call), "")
                       ELSE invokeImpl(s, e, CHOOSE i \in fwd : TRUE, call, result)

\* _onMessageCall up to its await.
onMessageCall(s, e, call, result) ==
  LET impls == IF call.mdest # ""
               THEN GetForwarder(s.forwarders[e], call.mdest)
               ELSE Get(s.implMap[e], call.data)
  IN IF impls = {}
     THEN IF call.mdest # ""
          THEN failCall(s, e, call, "RPC_UNKNOWN_FORWARD_DEST", "Unknown forward destination", "")
          ELSE failCall(s, e, call, "RPC_UNKNOWN_INTERFACE", "Unknown interface", "")
     ELSE LET impl == CHOOSE i \in impls : TRUE
              code == CallCheck(impl, call)
          IN IF code # ""
             THEN failCall(s, e, call, code, CheckMesg(code, call), "")
             ELSE invokeImpl(s, e, impl, call, result)

\* What the awaited promise p has settled to: the result of the local
\* implementation, or the outcome of the forwarded call.
Outcome(s, p) ==
  IF p.dest = ""
  THEN p.result
  ELSE LET q == s.promise[p.dest][p.req] IN
       IF q.st = "resolved" THEN Returns(q.code) ELSE Throws(q.code, q.mesg)

\* The awaited promise has settled.
Awaited(s, p) ==
  IF p.dest = "" THEN TRUE
  ELSE p.req # 0 /\ s.promise[p.dest][p.req].st \in {"resolved", "rejected"}

\* A variant of _onMessageCall after its await that answers an error of the
\* implementation with the code it reports to the logger.
onMessageCallResumeReportCode(s, p) ==
  LET s1 == [s EXCEPT !.implPromises = @ \ {p}]
      r == Outcome(s, p)
  IN IF r.throws
     THEN failCall(s1, p.e, p.call, "RPC_ONCALL_ERROR", r.mesg, "RPC_ONCALL_ERROR")
     ELSE sendResponse(s1, p.e, p.call.reqId, r.code)

\* A variant of _onMessageCall after its await that answers a forwarded call
\* under the reqId of the call made for it.
onMessageCallResumeOutId(s, p) ==
  LET s1 == [s EXCEPT !.implPromises = @ \ {p}]
      r == Outcome(s, p)
      c == IF p.dest = "" THEN p.call ELSE [p.call EXCEPT !.reqId = p.req]
  IN IF r.throws
     THEN failCall(s1, p.e, c, r.code, r.mesg, "RPC_ONCALL_ERROR")
     ELSE sendResponse(s1, p.e, c.reqId, r.code)

\* A variant of _onMessageCall after its await that, when the implementation
\* failed, sends a data response after the error response.
onMessageCallResumeAnswersTwice(s, p) ==
  LET s1 == [s EXCEPT !.implPromises = @ \ {p}]
      r == Outcome(s, p)
  IN IF r.throws
     THEN sendResponse(failCall(s1, p.e, p.call, r.code, r.mesg, "RPC_ONCALL_ERROR"),
                       p.e, p.call.reqId, r.code)
     ELSE sendResponse(s1, p.e, p.call.reqId, r.code)

\* _onMessageCall after its await.
onMessageCallResume(s, p) ==
  LET s1 == [s EXCEPT !.implPromises = @ \ {p}]
      r == Outcome(s, p)
  IN IF r.throws
     THEN failCall(s1, p.e, p.call, r.code, r.mesg, "RPC_ONCALL_ERROR")
     ELSE sendResponse(s1, p.e, p.call.reqId, r.code)

\* A variant of _dispatch whose Ready case does not call _processOutgoing.
dispatchReadyNoDrain(s, e, msg, result) ==
  LET s1 == [s EXCEPT !.dispatchLog[e] = Append(@, msg)] IN
  CASE msg.mtype = "RpcCall" -> onMessageCall(s1, e, msg, result)
    [] msg.mtype \in {"RpcRespData", "RpcRespErr"} -> onMessageResp(s1, e, msg)
    [] msg.mtype = "Custom" -> onCustomMessage(s1, e, msg)
    [] msg.mtype = "Ready" -> [s1 EXCEPT !.wait[e] = FALSE]
    [] OTHER -> s1

\* A variant of _dispatch whose Ready case, with no send function to drain
\* to, discards what is queued.
dispatchReadyEmptiesQueue(s, e, msg, result) ==
  LET s1 == [s EXCEPT !.dispatchLog[e] = Append(@, msg)] IN
  CASE msg.mtype = "RpcCall" -> onMessageCall(s1, e, msg, result)
    [] msg.mtype \in {"RpcRespData", "RpcRespErr"} -> onMessageResp(s1, e, msg)
    [] msg.mtype = "Custom" -> onCustomMessage(s1, e, msg)
    [] msg.mtype = "Ready" ->
         IF s.cb[e] = "null" /\ ~s.sendQ[e].null
         THEN [s1 EXCEPT !.wait[e] = FALSE, !.sendQ[e] = EmptyQueue]
         ELSE processOutgoing([s1 EXCEPT !.wait[e] = FALSE], e,
                              IF s.wait[e] THEN "opened" ELSE "ready")
    [] OTHER -> s1

\* _dispatch.  result is what the implementation will do if msg is a call.
dispatch(s, e, msg, result) ==
  LET s1 == [s EXCEPT !.dispatchLog[e] = Append(@, msg)] IN
  CASE msg.mtype = "RpcCall" -> onMessageCall(s1, e, msg, result)
    [] msg.mtype \in {"RpcRespData", "RpcRespErr"} -> onMessageResp(s1, e, msg)
    [] msg.mtype = "Custom" -> onCustomMessage(s1, e, msg)
    [] msg.mtype = "Ready" ->
         processOutgoing([s1 EXCEPT !.wait[e] = FALSE], e,
                         IF s.wait[e] THEN "opened" ELSE "ready")
    [] OTHER -> s1

\* receiveMessage
receiveMessage(s, e, msg0, result) ==
  LET msg == [msg0 EXCEPT !.n = Len(s.recvLog[e]) + 1]
      s1 == [s EXCEPT !.recvLog[e] = Append(@, msg)]
  IN IF ~s1.recvQ[e].null
     THEN [s1 EXCEPT !.recvQ[e].items = Append(@, msg)]
     ELSE dispatch(s1, e, msg, result)

\* queueIncoming
queueIncoming(s, e) ==
  IF s.recvQ[e].null THEN [s EXCEPT !.recvQ[e] = EmptyQueue] ELSE s

\* processIncoming: starts processQueue over the inbound queue.
processIncoming(s, e) ==
  IF ~s.recvQ[e].null
  THEN [s EXCEPT !.stack = Push(@, Frame("drainIn", e, NoMsg, "", "", FALSE))]
  ELSE s

\* ------------------------------------------------------------- processQueue
\* A variant of the end of the outbound drain that leaves the queue in place.
drainOutStepKeepsQueue(s) ==
  LET f == Top(s.stack)
      e == f.e
      items == s.sendQ[e].items
  IN IF f.i < Len(items)
     THEN sendMessageOrReject([s EXCEPT !.stack = SetTop(@, [f EXCEPT !.i = @ + 1])],
                              e, f.cb, items[f.i + 1], "drain")
     ELSE [s EXCEPT !.stack = Pop(@)]

\* One turn of processQueue's loop over the outbound queue, or its end: the
\* finally clause and, in _processOutgoing, this._inactiveSendQueue = null.
\* A drain nested in this one may have emptied the array and set the field
\* to null meanwhile; the loop then sees an empty array.
drainOutStep(s) ==
  LET f == Top(s.stack)
      e == f.e
      items == s.sendQ[e].items
  IN IF f.i < Len(items)
     THEN sendMessageOrReject([s EXCEPT !.stack = SetTop(@, [f EXCEPT !.i = @ + 1])],
                              e, f.cb, items[f.i + 1], "drain")
     ELSE [s EXCEPT !.sendQ[e] = NullQueue, !.stack = Pop(@)]

\* The same for the inbound queue (processIncoming).
drainInStep(s, result) ==
  LET f == Top(s.stack)
      e == f.e
      items == s.recvQ[e].items
  IN IF f.i < Len(items)
     THEN dispatch([s EXCEPT !.stack = SetTop(@, [f EXCEPT !.i = @ + 1])],
                   e, items[f.i + 1], result)
     ELSE [s EXCEPT !.recvQ[e] = NullQueue, !.stack = Pop(@)]

\* ------------------------------------------------------------- callbacks
\* The send callback puts the envelope on the channel to the peer.
sendTransmits(s) ==
  LET f == Top(s.stack) IN
  [s EXCEPT !.wire[f.e] = Append(@, f.msg), !.stack = SetTop(@, [f EXCEPT !.tx = TRUE])]

\* The send callback of a synchronous wiring, (msg) => peer.receiveMessage(msg),
\* as the tests wire two endpoints: the peer receives the envelope inside
\* the callback.
sendCallsPeer(s) ==
  LET f == Top(s.stack) IN
  receiveMessage([s EXCEPT !.stack = SetTop(@, [f EXCEPT !.tx = TRUE])],
                 Peer(f.e), f.msg, Returns("data"))

\* The send callback returns (or returns a promise that resolves).
sendReturns(s) ==
  LET f == Top(s.stack) IN
  PostSettles([s EXCEPT !.stack = Pop(@)], f.e, f.msg, f.origin, "resolved")

\* The send callback throws.
sendThrows(s) ==
  LET f == Top(s.stack) IN sendThrow([s EXCEPT !.stack = Pop(@)], f.e, f.msg, f.origin)

\* The send callback returns a promise that will reject.
sendReturnsPromise(s) ==
  LET f == Top(s.stack) IN
  [s EXCEPT !.stack = Pop(@),
            !.sendPromises = @ \cup {[e |-> f.e, msg |-> f.msg, origin |-> f.origin]}]

\* That promise rejects: catchMaybePromise's p.catch(handler) runs
\* _sendReject in a task of its own; what it throws rejects the promise
\* p.catch returned, and reaches _makeCallRaw's reject for a direct call.
sendPromiseRejects(s, p) ==
  LET s1 == sendReject([s EXCEPT !.sendPromises = @ \ {p}], p.e, p.msg) IN
  IF p.origin = "call"
  THEN [s1 EXCEPT !.promise[p.e][p.msg.reqId] = SettleWith(@, "rejected", "RPC_SEND_FAILED", SendFailedMesg),
                  !.caughtBy = "_makeCallRaw"]
  ELSE [PostSettles(s1, p.e, p.msg, p.origin, "rejected") EXCEPT !.caughtBy = "promise"]

\* The "message" listener returns.
listenerReturns(s) == [s EXCEPT !.stack = Pop(@)]

\* The "message" listener throws: emit, _onCustomMessage and _dispatch let
\* the error through, to receiveMessage's caller or to processQueue's
\* finally clause and then to processIncoming's caller.
listenerThrows(s) ==
  LET st == Pop(s.stack) IN
  IF st # <<>> /\ Top(st).k = "drainIn"
  THEN LET f == Top(st) IN
       [s EXCEPT !.recvQ[f.e].items = Splice(@, f.i), !.stack = Pop(st),
                 !.thrown = "listener", !.caughtBy = "caller"]
  ELSE [s EXCEPT !.stack = st, !.thrown = "listener", !.caughtBy = "caller"]

\* ------------------------------------------------------------- actions
TopIs(k) == stack # <<>> /\ Top(stack).k = k

\* No task is running.
Idle == stack = <<>>

\* User code is running: a task of its own, or a callback an endpoint called.
InUserCode ==
  \/ Idle
  \/ /\ stack # <<>>
     /\ Top(stack).k \in UserFrames
     /\ NumUser(stack) <= MaxNest

\* Envelopes handed to _sendMessage that are not calls.
Posts(e) == Len(handLog[e]) - (nextRequestId[e] - 1)

\* An API call made by user code counts against MaxOps; a step of the
\* running task does not.
ApiCall(s) == ops < MaxOps /\ Apply([s EXCEPT !.ops = @ + 1])

TaskStep(s) == Apply(s)

\* What an implementation may do.
Results == {Returns("data"), Throws("E_IMPL", "boom")}

\* No registrations; the endpoints of E constructed with sendMessage.
NoEntries == [e \in Rpcs |-> {}]
Wired(E) == [e \in Rpcs |-> IF e \in E THEN "fn" ELSE "null"]

\* The constructor's options: sendMessage and callWrapper.
InitRpc(cbs, impls, fwds, wrappers) ==
  /\ sendMessageCB = cbs
  /\ callWrapper = wrappers
  /\ wrapped = {}
  /\ wrapLog = [e \in Rpcs |-> <<>>]
  /\ postPromise = [e \in Rpcs |-> <<>>]
  /\ inactiveRecvQueue = [e \in Rpcs |-> NullQueue]
  /\ inactiveSendQueue = [e \in Rpcs |-> IF cbs[e] = "null" THEN EmptyQueue ELSE NullQueue]
  /\ waitForReadyMessage = [e \in Rpcs |-> FALSE]
  /\ implMap = impls
  /\ forwarders = fwds
  /\ pendingCalls = [e \in Rpcs |-> {}]
  /\ nextRequestId = [e \in Rpcs |-> 1]
  /\ promise = [e \in Rpcs |-> [r \in 1..MaxIds |-> NoPromise]]
  /\ stack = <<>>
  /\ sendPromises = {}
  /\ implPromises = {}
  /\ wire = [e \in Rpcs |-> <<>>]
  /\ sentLog = [e \in Rpcs |-> <<>>]
  /\ handLog = [e \in Rpcs |-> <<>>]
  /\ recvLog = [e \in Rpcs |-> <<>>]
  /\ dispatchLog = [e \in Rpcs |-> <<>>]
  /\ invokeLog = [e \in Rpcs |-> <<>>]
  /\ fwdLog = {}
  /\ warnLog = [e \in Rpcs |-> <<>>]
  /\ messageEvents = [e \in Rpcs |-> <<>>]
  /\ errorEvents = [e \in Rpcs |-> 0]
  /\ thrown = ""
  /\ caughtBy = ""
  /\ ops = 0

\* Endpoints wired by their send functions alone: no Node.
InitWrapped(cbs, impls, fwds, wrappers) ==
  /\ InitRpc(cbs, impls, fwds, wrappers)
  /\ steps = <<>> /\ mine = <<>> /\ queue = <<>> /\ inFlight = <<>>
  /\ serving = {} /\ asked = <<>>

\* The constructor without the option callWrapper: callWrapper = plainCall.
InitWith(cbs, impls, fwds) ==
  InitWrapped(cbs, impls, fwds, [e \in Rpcs |-> "plainCall"])

SetSendMessage(e) ==
  /\ Idle
  /\ \E cb \in {"null", "fn"} : ApiCall(setSendMessage(Cur, e, cb))

QueueOutgoingUntilReadyMessage(e) ==
  /\ Idle
  /\ ApiCall(queueOutgoingUntilReadyMessage(Cur, e))

QueueIncoming(e) ==
  /\ Idle
  /\ ApiCall(queueIncoming(Cur, e))

ProcessIncoming(e) ==
  /\ InUserCode
  /\ TaskStep(processIncoming(Cur, e))

SendReadyMessage(e) ==
  /\ InUserCode /\ Posts(e) < MaxPosts
  /\ ApiCall(sendReadyMessage(Cur, e))

PostMessage(e) ==
  /\ InUserCode /\ Posts(e) < MaxPosts
  /\ ApiCall(postMessage(Cur, e, "m"))

CallRemoteFunc(e) ==
  /\ InUserCode /\ nextRequestId[e] <= MaxCalls
  /\ ApiCall(callRemoteFuncForward(Cur, e, "", "f", "ok"))

\* The environment, as the peer, passes an envelope of M to receiveMessage.
ReceiveMessage(e, M) ==
  /\ InUserCode /\ Len(recvLog[e]) < MaxRecv
  /\ \E m \in M : ApiCall(receiveMessage(Cur, e, m, Returns("data")))

\* The channel passes the next envelope from the peer to receiveMessage.
Deliver(e, R) ==
  /\ InUserCode /\ wire[Peer(e)] # <<>>
  /\ \E r \in R :
       TaskStep(receiveMessage([Cur EXCEPT !.wire[Peer(e)] = Tail(@)], e,
                               Head(wire[Peer(e)]), r))

Close(e) ==
  /\ Idle
  /\ ApiCall(close(Cur, e))

\* Nothing is running, on the channel or awaited.
Quiescent ==
  /\ Idle /\ implPromises = {} /\ sendPromises = {}
  /\ \A e \in Rpcs : wire[e] = <<>>

\* registerForwarder(fwdName, dest) or registerForwarder(fwdName, dest,
\* fwdDest), made while the endpoints are set up: before any traffic, one
\* forwarder for a name.
RegisterForwarder(e, Names, Dests, Pols) ==
  /\ Idle /\ ops = 0
  /\ \E fwdName \in Names, dest \in Dests, pol \in Pols \cup {"omitted"} :
       /\ Get(forwarders[e], fwdName) = {}
       /\ TaskStep(registerForwarder(Cur, e, fwdName, dest,
                     IF pol = "omitted" THEN defaultFwdDest(fwdName) ELSE pol))

\* callRemoteFuncForward(fwdDest, "f", ...args) with fwdDest from D, made by
\* user code once the traffic of the calls before it has come to rest.
CallRemoteFuncForward(e, D) ==
  /\ Quiescent /\ ops < MaxFwd /\ nextRequestId[e] <= MaxCalls
  /\ \E fwdDest \in D, args \in {"ok", "bad"} :
       ApiCall(callRemoteFuncForward(Cur, e, fwdDest, "f", args))

\* callRemoteFuncForward(fwdDest, "f") with fwdDest from D, made by user code
\* between tasks, while earlier calls may still be under way.
CallWhileOthersPending(e, D) ==
  /\ Idle /\ nextRequestId[e] <= MaxCalls
  /\ \E fwdDest \in D : ApiCall(callRemoteFuncForward(Cur, e, fwdDest, "f", "ok"))

\* A call through an unchecked stub, made by user code once the traffic of
\* the calls before it has come to rest.
StubCall(e, Ifaces, Meths) ==
  /\ Quiescent /\ ops < MaxFwd /\ nextRequestId[e] <= MaxCalls
  /\ \E name \in Ifaces, meth \in Meths, args \in {"ok", "bad"} :
       ApiCall(stubCall(Cur, e, name, meth, args))

\* A call of a method of an unchecked stub with an argument list of Args.
StubCallWith(e, name, meth, Args) ==
  /\ Quiescent /\ ops < MaxFwd /\ nextRequestId[e] <= MaxCalls
  /\ \E args \in Args : ApiCall(stubCall(Cur, e, name, meth, args))

\* A call of a method through the stub made with the checker of ICalc.
CheckedStubCall(e, name, Meths) ==
  /\ Idle /\ ops < MaxFwd /\ nextRequestId[e] <= MaxCalls
  /\ \E meth \in Meths : ApiCall(checkedStubCall(Cur, e, name, meth, "ok"))

\* A call of a method through the stub made without a checker.
UncheckedStubCall(e, name, Meths) ==
  /\ Idle /\ ops < MaxFwd /\ nextRequestId[e] <= MaxCalls
  /\ \E meth \in Meths : ApiCall(stubCall(Cur, e, name, meth, "ok"))

\* The Custom envelopes that endpoint e has handed to its send path.
NumPosted(e) == Len(SelectSeq(handLog[e], LAMBDA m : m.mtype = "Custom"))

\* postMessage("a") and after it postMessage("b"), each made by user code
\* between tasks.
PostInOrder(e) ==
  /\ Idle /\ NumPosted(e) < MaxPosts
  /\ ApiCall(postMessage(Cur, e, IF NumPosted(e) = 0 THEN "a" ELSE "b"))

\* What the user registers under a name: a Calc object without a checker
\* ("impl"), the same with the checker of ICalc ("checked"), or a function.
register(s, e, name, kind) ==
  CASE kind = "impl" -> registerImpl(s, e, name, "none", {}, {"add"})
    [] kind = "checked" -> registerImpl(s, e, name, "typed", {"add"}, {"add"})
    [] OTHER -> registerFunc(s, e, name)

\* unregisterImpl(name) or unregisterFunc(name)
unregister(s, e, name, kind) ==
  IF kind = "func" THEN unregisterFunc(s, e, name) ELSE unregisterImpl(s, e, name)

\* registerImpl or registerFunc, called by user code between tasks.
Register(e, Names, Kinds) ==
  /\ Idle
  /\ \E name \in Names, kind \in Kinds : ApiCall(register(Cur, e, name, kind))

\* unregisterImpl or unregisterFunc, called by user code between tasks.
Unregister(e, Names) ==
  /\ Idle
  /\ \E name \in Names, kind \in {"impl", "func"} : ApiCall(unregister(Cur, e, name, kind))

\* callRemoteFunc(name) with a name of N, made by user code once the traffic
\* of the calls before it has come to rest.
CallRemoteFuncByName(e, N) ==
  /\ Quiescent /\ ops < MaxFwd /\ nextRequestId[e] <= MaxCalls
  /\ \E nm \in N : ApiCall(callRemoteFunc(Cur, e, nm, "ok"))

\* getStub(name).greet() with a name of N.
GetStubCall(e, N) ==
  /\ Quiescent /\ ops < MaxFwd /\ nextRequestId[e] <= MaxCalls
  /\ \E nm \in N : ApiCall(getStubCall(Cur, e, nm, "greet", "ok"))

\* The configured wrapper of an endpoint invokes, in a later task, an inner
\* function that it kept.
WrapperInvokesInner ==
  /\ Idle /\ \A e \in Rpcs : wire[e] = <<>>
  /\ \E w \in wrapped : TaskStep(innerInvoked(Cur, w))

\* The ways of making a call: callRemoteFunc("f"), callRemoteFuncForward("d",
\* "f"), and add() of the stub of "calc" made with or without a checker.
callBy(s, e, how) ==
  CASE how = "func" -> callRemoteFuncForward(s, e, "", "f", "ok")
    [] how = "forward" -> callRemoteFuncForward(s, e, "d", "f", "ok")
    [] how = "checked" -> checkedStubCall(s, e, "calc", "add", "ok")
    [] OTHER -> stubCall(s, e, "calc", "add", "ok")

\* User code makes a call in one of these ways, once the traffic of the
\* calls before it has come to rest.
CallBy(e, Hows) ==
  /\ Quiescent /\ ops < MaxFwd
  /\ Len(wrapLog[e]) < MaxCalls /\ nextRequestId[e] <= MaxCalls
  /\ \E how \in Hows : ApiCall(callBy(Cur, e, how))

\* A call through the unchecked stub of getStubForward(fwdDest, name), made
\* by user code once the traffic of the calls before it has come to rest.
StubCallForward(e, fwdDest, N, M) ==
  /\ Quiescent /\ ops < MaxFwd /\ nextRequestId[e] <= MaxCalls
  /\ \E name \in N, meth \in M, args \in {"ok", "bad"} :
       ApiCall(stubCallForward(Cur, e, fwdDest, name, meth, args))

\* A call through the unchecked stub of getStubForward(fwdDest, ...), one
\* of Calls, made by user code once the traffic of the calls before it has
\* come to rest.
StubCallOneOf(e, fwdDest, Calls) ==
  /\ Quiescent /\ ops < MaxFwd /\ nextRequestId[e] <= MaxCalls
  /\ \E c \in Calls : ApiCall(stubCallForward(Cur, e, fwdDest, c[1], c[2], c[3]))

\* A send callback that is (msg) => peer.receiveMessage(msg) runs.
SendCallsPeer == TopIs("send") /\ ~Top(stack).tx /\ TaskStep(sendCallsPeer(Cur))

\* The "message" listener of endpoint e, while it runs, calls the peer's
\* function "f".
ListenerCalls(e) ==
  /\ TopIs("listener") /\ Top(stack).e = e /\ nextRequestId[e] <= MaxCalls
  /\ ApiCall(callRemoteFuncForward(Cur, e, "", "f", "ok"))

\* postMessageForward(fwdDest, data) with fwdDest from D.
PostMessageForward(e, D) ==
  /\ Quiescent /\ ops < MaxFwd /\ Posts(e) < MaxPosts
  /\ \E fwdDest \in D, data \in {"m", "n"} :
       ApiCall(postMessageForward(Cur, e, fwdDest, data))

\* The environment, as the peer, passes a call of M to receiveMessage.
ReceiveCall(e, M) ==
  /\ Quiescent /\ ops < MaxFwd /\ Len(recvLog[e]) < MaxRecv
  /\ \E m \in M, r \in Results : ApiCall(receiveMessage(Cur, e, m, r))

\* A channel that passes the next envelope from the peer to receiveMessage
\* in a task of its own.
DeliverLater(e, R) ==
  /\ Idle /\ wire[Peer(e)] # <<>>
  /\ \E r \in R :
       TaskStep(receiveMessage([Cur EXCEPT !.wire[Peer(e)] = Tail(@)], e,
                               Head(wire[Peer(e)]), r))

DrainOutStep == TopIs("drainOut") /\ TaskStep(drainOutStep(Cur))

DrainInStep == TopIs("drainIn") /\ \E r \in Results : TaskStep(drainInStep(Cur, r))

SendTransmits == TopIs("send") /\ ~Top(stack).tx /\ TaskStep(sendTransmits(Cur))

SendReturns == TopIs("send") /\ TaskStep(sendReturns(Cur))

\* The send callback of a working channel returns: it has sent the envelope.
SendDone == TopIs("send") /\ Top(stack).tx /\ TaskStep(sendReturns(Cur))

SendThrowsAt(e) == TopIs("send") /\ Top(stack).e = e /\ TaskStep(sendThrows(Cur))

SendThrows == \E e \in Ep : SendThrowsAt(e)

SendReturnsPromiseAt(e) ==
  TopIs("send") /\ Top(stack).e = e /\ TaskStep(sendReturnsPromise(Cur))

SendReturnsPromise == \E e \in Ep : SendReturnsPromiseAt(e)

SendPromiseRejects == Idle /\ \E p \in sendPromises : TaskStep(sendPromiseRejects(Cur, p))

ImplSettles ==
  /\ Idle
  /\ \E p \in implPromises : Awaited(Cur, p) /\ TaskStep(onMessageCallResume(Cur, p))

ListenerReturns == TopIs("listener") /\ TaskStep(listenerReturns(Cur))

ListenerThrows == TopIs("listener") /\ TaskStep(listenerThrows(Cur))

\* ------------------------------------------------------------- Spec
\* The outbound side of endpoint A, constructed with or without sendMessage:
\* calls, posts, the send callback and its failures, the outbound queue and
\* its drains.  The peer is the environment, which may reply to any call
\* and send Ready at any time.
Replies ==
  {Env(t, r, IF t = "RpcRespData" THEN "data" ELSE "E_REMOTE") :
     t \in {"RpcRespData", "RpcRespErr"}, r \in 1..MaxCalls}

Init ==
  \E c \in {"null", "fn"} :
    InitWith([e \in Rpcs |-> IF e = "A" THEN c ELSE "null"], NoEntries, NoEntries)

Next ==
  \/ SetSendMessage("A")
  \/ QueueOutgoingUntilReadyMessage("A")
  \/ SendReadyMessage("A")
  \/ PostMessage("A")
  \/ CallRemoteFunc("A")
  \/ ReceiveMessage("A", Replies \cup {Env("Ready", 0, "")})
  \/ DrainOutStep
  \/ SendReturns
  \/ SendThrows
  \/ SendReturnsPromise
  \/ SendPromiseRejects

Spec == Init /\ [][Next]_vars

\* ------------------------------------------------------------- SpecIn
\* The inbound side of endpoint A: the inbound queue and its drains, "message"
\* listeners that throw or call back into the endpoint.
NextIn ==
  \/ QueueIncoming("A")
  \/ ProcessIncoming("A")
  \/ ReceiveMessage("A", {Env("Custom", 0, "m")})
  \/ DrainInStep
  \/ ListenerReturns
  \/ ListenerThrows

SpecIn == Init /\ [][NextIn]_vars

\* ------------------------------------------------------------- SpecLive
\* Two endpoints over a channel, both constructed with sendMessage.  A makes
\* calls; its send callback may put the envelope on the channel, throw, or
\* return a promise that rejects.  B is live: it receives what the channel
\* carries and its answers get through.  B has registered "f", which returns
\* a value, or nothing, and then answers a call with an error.
InitLive ==
  \E impls \in {{}, {FuncEntry("f")}} :
    InitWith(Wired(Ep), [e \in Rpcs |-> IF e = "B" THEN impls ELSE {}], NoEntries)

\* The steps the JavaScript scheduler and the channel take on their own:
\* a running callback comes to an end, a settled promise's reaction runs,
\* an envelope on the channel reaches the peer.
Progress ==
  \/ SendTransmits
  \/ SendDone
  \/ SendThrowsAt("A")
  \/ SendReturnsPromiseAt("A")
  \/ SendPromiseRejects
  \/ ImplSettles
  \/ Deliver("A", {Returns("data")})
  \/ Deliver("B", {Returns("data")})

NextLive ==
  \/ CallRemoteFunc("A")
  \/ Progress

SpecLive == InitLive /\ [][NextLive]_vars /\ WF_vars(Progress)

\* ------------------------------------------------------------- SpecPair
\* Two endpoints over a working channel, both constructed with sendMessage:
\* each may gate its outbound traffic and announce that it is ready, A posts
\* messages; the send callbacks put every envelope on the channel.
InitPair == InitWith(Wired(Ep), NoEntries, NoEntries)

\* The steps the JavaScript scheduler and the channel take on their own.
ProgressPair ==
  \/ DrainOutStep
  \/ SendTransmits
  \/ SendDone
  \/ ListenerReturns
  \/ Deliver("A", {Returns("data")})
  \/ Deliver("B", {Returns("data")})

NextPair ==
  \/ \E e \in Ep : QueueOutgoingUntilReadyMessage(e)
  \/ \E e \in Ep : SendReadyMessage(e)
  \/ PostMessage("A")
  \/ ProgressPair

SpecPair == InitPair /\ [][NextPair]_vars /\ WF_vars(ProgressPair)

\* ------------------------------------------------------------- SpecClose
\* The life of a pending call on endpoint A: made, answered by the peer,
\* rejected by a failing send, or still pending when the user tears the
\* endpoint down.
InitClose == InitWith(Wired({"A"}), NoEntries, NoEntries)

NextClose ==
  \/ CallRemoteFunc("A")
  \/ ReceiveMessage("A", Replies)
  \/ SendReturns
  \/ SendThrows
  \/ SendReturnsPromise
  \/ SendPromiseRejects
  \/ Close("A")

SpecClose == InitClose /\ [][NextClose]_vars

\* ------------------------------------------------------------- SpecFunc
\* A calls the function "f" that B has registered with registerFunc, over a
\* working channel; the function returns a value or throws an error.
FuncResults == {Returns("v1"), Returns("v2"), Throws("E1", "m1"), Throws("E2", "m2")}

InitFunc ==
  InitWith(Wired(Ep), [e \in Rpcs |-> IF e = "B" THEN {FuncEntry("f")} ELSE {}], NoEntries)

NextFunc ==
  \/ CallRemoteFunc("A")
  \/ Deliver("A", FuncResults)
  \/ Deliver("B", FuncResults)
  \/ SendTransmits
  \/ SendDone
  \/ ImplSettles

SpecFunc == InitFunc /\ [][NextFunc]_vars

\* ------------------------------------------------------------- SpecFwd
\* Forwarding.  A is the origin; B, its peer, may have a forwarder for "d"
\* to C and one for "*" to E, each with any policy; D is the peer of C, F
\* the peer of E.  B, D and F have registered the function "f".  A makes
\* calls and posts messages with fwdDest "d" or "x"; the environment passes
\* B calls that carry no reqId.  The channels work.
FwdDests == {"d", "x"}
Policies == {"*", "", "d"}
RawCalls == {MsgCall(0, "f", "invoke", "ok", md) : md \in FwdDests}

InitFwd ==
  InitWith(Wired(Rpcs),
           [e \in Rpcs |-> IF e \in {"B", "D", "F"} THEN {FuncEntry("f")} ELSE {}],
           NoEntries)

NextFwd ==
  \/ RegisterForwarder("B", {"d"}, {"C"}, Policies)
  \/ RegisterForwarder("B", {"*"}, {"E"}, Policies)
  \/ CallRemoteFuncForward("A", FwdDests)
  \/ PostMessageForward("A", FwdDests)
  \/ ReceiveCall("B", RawCalls)
  \/ \E e \in Rpcs : Deliver(e, Results)
  \/ SendTransmits
  \/ SendDone
  \/ ImplSettles
  \/ ListenerReturns

SpecFwd == InitFwd /\ [][NextFwd]_vars

\* ------------------------------------------------------------- SpecChain
\* A chain: A is the origin; B may forward "d" to C, keeping the fwdDest or
\* dropping it; D, the peer of C, may forward "d" to E; F is the peer of E.
\* B, D and F have registered "f", which returns a value or throws.  A
\* calls "f" directly or with fwdDest "d", also while earlier calls are
\* pending.  The channels work.
InitChain == InitFwd

\* What happens without the user: a callback that was called runs to its
\* end, the channels deliver, an awaited promise that has settled resumes
\* the handler awaiting it.
ProgressChain ==
  \/ \E e \in Rpcs : DeliverLater(e, Results)
  \/ SendTransmits
  \/ SendDone
  \/ ImplSettles

NextChain ==
  \/ RegisterForwarder("B", {"d"}, {"C"}, {"d"})
  \/ RegisterForwarder("D", {"d"}, {"E"}, {})
  \/ CallWhileOthersPending("A", {"", "d"})
  \/ ProgressChain

SpecChain == InitChain /\ [][NextChain]_vars

\* ------------------------------------------------------------- SpecDefault
\* Forwarders registered without the policy argument: B may have one for
\* "*" and one for "d", both to C; D, the peer of C, may have one for "d" and
\* one for "x", both to E.  A calls "f" with fwdDest "d" or "x".
InitDefault == InitFwd

NextDefault ==
  \/ RegisterForwarder("B", {"*", "d"}, {"C"}, {})
  \/ RegisterForwarder("D", {"d", "x"}, {"E"}, {})
  \/ CallRemoteFuncForward("A", FwdDests)
  \/ \E e \in Rpcs : DeliverLater(e, Results)
  \/ SendTransmits
  \/ SendDone
  \/ ImplSettles

SpecDefault == InitDefault /\ [][NextDefault]_vars

\* ------------------------------------------------------------- SpecCheck
\* The checks of a responder.  B has registered a Calc object, which has the
\* method "add", as "calc" with the checker of its interface and as
\* "calcAny" without a checker.  A calls through unchecked stubs the
\* interfaces "calc", "calcAny" and "nope" and the methods "add" and
\* "additionify", with arguments that satisfy the interface or do not; the
\* environment passes B the same calls without reqId.  The channel works.
Ifaces == {"calc", "calcAny", "nope"}
Meths == {"add", "additionify"}

CheckedImpls == {ImplEntry("calc", "typed", {"add"}, {"add"}),
                 ImplEntry("calcAny", "none", {}, {"add"})}

CallsNoReqId ==
  {MsgCall(0, name, meth, args, "") : name \in Ifaces, meth \in Meths, args \in {"ok", "bad"}}

InitCheck ==
  InitWith(Wired(Ep), [e \in Rpcs |-> IF e = "B" THEN CheckedImpls ELSE {}], NoEntries)

NextCheck ==
  \/ StubCall("A", Ifaces, Meths)
  \/ ReceiveCall("B", CallsNoReqId)
  \/ DeliverLater("A", Results)
  \/ DeliverLater("B", Results)
  \/ SendTransmits
  \/ SendDone
  \/ ImplSettles

SpecCheck == InitCheck /\ [][NextCheck]_vars

\* ------------------------------------------------------------- SpecArgs
\* The argument checker.  B has registered a Calc object as "calc" with the
\* checker of ICalc.  A calls add through an unchecked stub with two numbers,
\* with a string for a number, with no argument, with one, and with three.
\* The channel works.
ArgTokens == {"ok", "bad", "none", "one", "extra"}

InitArgs ==
  InitWith(Wired(Ep),
           [e \in Rpcs |-> IF e = "B" THEN {ImplEntry("calc", "typed", {"add"}, {"add"})}
                                      ELSE {}],
           NoEntries)

NextArgs ==
  \/ StubCallWith("A", "calc", "add", ArgTokens)
  \/ DeliverLater("A", Results)
  \/ DeliverLater("B", Results)
  \/ SendTransmits
  \/ SendDone
  \/ ImplSettles

SpecArgs == InitArgs /\ [][NextArgs]_vars

\* ------------------------------------------------------------- SpecResult
\* The result checker.  B has registered under "calc", without a checker, an
\* object whose add returns a number, returns a value that is not a number,
\* or throws.  A calls add through the stub made with the checker of ICalc
\* and through an unchecked stub, also while an earlier call is pending.
\* The channel works.
ResultsAnyType == {Returns("data"), Returns("invalid"), Throws("E_IMPL", "boom")}

InitResult ==
  InitWith(Wired(Ep),
           [e \in Rpcs |-> IF e = "B" THEN {ImplEntry("calc", "none", {}, {"add"})} ELSE {}],
           NoEntries)

NextResult ==
  \/ CheckedStubCall("A", "calc", Meths)
  \/ UncheckedStubCall("A", "calc", {"add"})
  \/ DeliverLater("A", ResultsAnyType)
  \/ DeliverLater("B", ResultsAnyType)
  \/ SendTransmits
  \/ SendDone
  \/ ImplSettles

SpecResult == InitResult /\ [][NextResult]_vars

\* ------------------------------------------------------------- SpecOrder
\* Messages in order.  A, constructed with or without sendMessage, posts "a"
\* and then "b"; it may gate its outbound traffic and have its send function
\* set or removed.  Its peer B is live and may send Ready.  The send
\* callbacks put every envelope on the channel, which keeps the order and
\* hands an envelope to the receiver between tasks or while a callback of
\* the receiver runs (a send function that pumps the channel).
InitOrder ==
  \E c \in {"null", "fn"} :
    InitWith([e \in Rpcs |-> IF e = "A" THEN c ELSE IF e = "B" THEN "fn" ELSE "null"],
             NoEntries, NoEntries)

NextOrder ==
  \/ SetSendMessage("A")
  \/ QueueOutgoingUntilReadyMessage("A")
  \/ PostInOrder("A")
  \/ SendReadyMessage("B")
  \/ DrainOutStep
  \/ SendTransmits
  \/ SendDone
  \/ ListenerReturns
  \/ Deliver("A", {Returns("data")})
  \/ Deliver("B", {Returns("data")})

SpecOrder == InitOrder /\ [][NextOrder]_vars

\* ------------------------------------------------------------- SpecDrain
\* Both queues of endpoint A, constructed without sendMessage: envelopes
\* are posted while there is no send function and received while incoming
\* envelopes are queued; the queues are drained by setSendMessage and by
\* processIncoming; the send function and the "message" listener return or
\* throw.  The peer is the environment, which sends Custom envelopes and
\* Ready.
InitDrain == InitWith(Wired({}), NoEntries, NoEntries)

NextDrain ==
  \/ SetSendMessage("A")
  \/ PostMessage("A")
  \/ QueueIncoming("A")
  \/ ProcessIncoming("A")
  \/ ReceiveMessage("A", {Env("Custom", 0, "m"), Env("Ready", 0, "")})
  \/ DrainOutStep
  \/ DrainInStep
  \/ SendReturns
  \/ SendThrows
  \/ ListenerReturns
  \/ ListenerThrows

SpecDrain == InitDrain /\ [][NextDrain]_vars

\* ------------------------------------------------------------- SpecInactive
\* An endpoint without a send function.  A is constructed without
\* sendMessage and may have a send function installed and removed; its peer
\* B is live.  Both have registered the function "f" and call the other's;
\* B may send Ready.  The send callbacks put every envelope on the channel,
\* which hands it to the receiver between tasks or while a callback of the
\* receiver runs.
InitInactive ==
  InitWith(Wired({"B"}), [e \in Rpcs |-> IF e \in Ep THEN {FuncEntry("f")} ELSE {}],
           NoEntries)

NextInactive ==
  \/ SetSendMessage("A")
  \/ \E e \in Ep : Idle /\ CallRemoteFunc(e)
  \/ SendReadyMessage("B")
  \/ DrainOutStep
  \/ SendTransmits
  \/ SendDone
  \/ ImplSettles
  \/ Deliver("A", {Returns("data")})
  \/ Deliver("B", {Returns("data")})

SpecInactive == InitInactive /\ [][NextInactive]_vars

\* ------------------------------------------------------------- SpecRegistry
\* The registry of endpoint B, which starts empty: the user registers
\* objects and functions under the names "foo" and "calc" and unregisters
\* them; the environment, as the peer, passes B calls of these names.  B's
\* channel works.
RegNames == {"foo", "calc"}
RegKinds == {"impl", "checked", "func"}

RegCalls == {MsgCall(1, name, meth, "ok", "") : name \in RegNames, meth \in {"add", "invoke"}}

InitRegistry == InitWith(Wired(Ep), NoEntries, NoEntries)

NextRegistry ==
  \/ Register("B", RegNames, RegKinds)
  \/ Unregister("B", RegNames)
  \/ ReceiveCall("B", RegCalls)
  \/ DeliverLater("A", Results)
  \/ SendTransmits
  \/ SendDone
  \/ ImplSettles

SpecRegistry == InitRegistry /\ [][NextRegistry]_vars

\* ------------------------------------------------------------- SpecName
\* Names with "@".  A is the origin; its peer B has registered "f" and has
\* the forwarder "d" to C, with the default policy; D, the peer of C, has
\* registered "f" and "f@d".  A calls functions and stub methods by names
\* made of the pieces "f", "d", "x" and "@": names with no "@", with one at
\* the start, in the middle or at the end, and with two.  The channels work.
Names ==
  { <<>>, <<"f">>, <<"@">>, <<"f", "@">>, <<"@", "d">>, <<"@", "@">>,
    <<"f", "@", "d">>, <<"f", "@", "x">>,
    <<"f", "@", "d", "@", "d">>, <<"f", "@", "x", "@", "d">>,
    <<"@", "f", "@", "d">> }

InitName ==
  InitWith(Wired(Rpcs),
           [e \in Rpcs |-> CASE e = "B" -> {FuncEntry("f")}
                              [] e = "D" -> {FuncEntry("f"), FuncEntry("f@d")}
                              [] OTHER -> {}],
           [e \in Rpcs |-> IF e = "B"
                           THEN {[name |-> "d", checker |-> "none", meths |-> {}, has |-> {},
                                  dest |-> "C", fwdDest |-> defaultFwdDest("d")]}
                           ELSE {}])

NextName ==
  \/ CallRemoteFuncByName("A", Names)
  \/ GetStubCall("A", Names)
  \/ \E e \in Rpcs : DeliverLater(e, Results)
  \/ SendTransmits
  \/ SendDone
  \/ ImplSettles

SpecName == InitName /\ [][NextName]_vars

\* ------------------------------------------------------------- SpecWrap
\* The option callWrapper.  A, B and C are constructed with plainCall or
\* with a wrapper that invokes the inner function at once or in a later
\* task, if at all.  B has registered the function "f", the checked Calc
\* "calc" and the forwarder "d" to C; D, the peer of C, has registered "f".
\* A makes calls with callRemoteFunc, callRemoteFuncForward and the methods
\* of a checked and of an unchecked stub.  The channels work.
Wrappers == {"plainCall", "now", "later"}
Hows == {"func", "forward", "checked", "unchecked"}

InitWrap ==
  \E wa, wc \in Wrappers :
    InitWrapped(Wired(Rpcs),
                [e \in Rpcs |-> CASE e = "B" -> {FuncEntry("f"),
                                                ImplEntry("calc", "typed", {"add"}, {"add"})}
                                   [] e = "D" -> {FuncEntry("f")}
                                   [] OTHER -> {}],
                [e \in Rpcs |-> IF e = "B"
                                THEN {[name |-> "d", checker |-> "none", meths |-> {},
                                       has |-> {}, dest |-> "C",
                                       fwdDest |-> defaultFwdDest("d")]}
                                ELSE {}],
                [e \in Rpcs |-> CASE e = "A" -> wa [] e = "C" -> wc [] OTHER -> "plainCall"])

NextWrap ==
  \/ CallBy("A", Hows)
  \/ WrapperInvokesInner
  \/ \E e \in Rpcs : DeliverLater(e, {Returns("data")})
  \/ SendTransmits
  \/ SendDone
  \/ ImplSettles

SpecWrap == InitWrap /\ [][NextWrap]_vars

\* ------------------------------------------------------------- SpecSync
\* Two endpoints wired synchronously, as in the tests: the send function of
\* each is (msg) => peer.receiveMessage(msg).  A posts messages and calls
\* "f" on B, which has not registered it; B's "message" listener may call
\* "f" on A, which has registered it or not.
InitSync ==
  \E impls \in {{}, {FuncEntry("f")}} :
    InitWith(Wired(Ep), [e \in Rpcs |-> IF e = "A" THEN impls ELSE {}], NoEntries)

NextSync ==
  \/ PostInOrder("A")
  \/ Idle /\ CallRemoteFunc("A")
  \/ ListenerCalls("B")
  \/ SendCallsPeer
  \/ SendDone
  \/ ListenerReturns
  \/ ImplSettles

SpecSync == InitSync /\ [][NextSync]_vars

\* ------------------------------------------------------------- SpecRelay
\* Calls that a forwarder passes on.  B has the forwarder "d" to C, with the
\* default policy, and D, the peer of C, is the terminal endpoint.  B and D
\* have both registered the Calc object as "calc" with the checker of its
\* interface and as "calcAny" without one.  A calls, through unchecked stubs
\* made for the forwarder "d", the interfaces "calc", "calcAny" and "nope"
\* and the methods "add" and "additionify", with arguments that satisfy
\* the interface or do not.  The channels work.
InitRelay ==
  InitWith(Wired(Rpcs),
           [e \in Rpcs |-> IF e \in {"B", "D"} THEN CheckedImpls ELSE {}],
           [e \in Rpcs |-> IF e = "B"
                           THEN {[name |-> "d", checker |-> "none", meths |-> {}, has |-> {},
                                  dest |-> "C", fwdDest |-> defaultFwdDest("d")]}
                           ELSE {}])

NextRelay ==
  \/ StubCallForward("A", "d", Ifaces, Meths)
  \/ \E e \in Rpcs : DeliverLater(e, Results)
  \/ SendTransmits
  \/ SendDone
  \/ ImplSettles

SpecRelay == InitRelay /\ [][NextRelay]_vars

\* ------------------------------------------------------------- SpecErr
\* Errors in a chain.  A is the origin; B forwards "d" to C, dropping the
\* fwdDest or passing it through; D, the peer of C, may forward "d" to E,
\* whose peer is F.  D and F have registered the Calc object as "calc"
\* with the checker of its interface; add returns a value or throws.  A
\* calls through stubs made for the forwarder "d": add with good and with
\* bad arguments, a method the interface does not have, and an interface
\* nobody has registered.  The send functions of C and E, which send the
\* forwarded calls, may throw; the other channels work.
ErrCalls ==
  { <<"calc", "add", "ok">>, <<"calc", "add", "bad">>,
    <<"calc", "additionify", "ok">>, <<"nope", "add", "ok">> }

InitErr ==
  \E pol \in {"", "*"}, dfw \in BOOLEAN :
    InitWith(Wired(Rpcs),
             [e \in Rpcs |-> IF e \in {"D", "F"}
                             THEN {ImplEntry("calc", "typed", {"add"}, {"add"})} ELSE {}],
             [e \in Rpcs |->
                CASE e = "B" -> {[name |-> "d", checker |-> "none", meths |-> {}, has |-> {},
                                  dest |-> "C", fwdDest |-> pol]}
                  [] e = "D" /\ dfw ->
                                {[name |-> "d", checker |-> "none", meths |-> {}, has |-> {},
                                  dest |-> "E", fwdDest |-> defaultFwdDest("d")]}
                  [] OTHER -> {}])

NextErr ==
  \/ StubCallOneOf("A", "d", ErrCalls)
  \/ \E e \in Rpcs : DeliverLater(e, Results)
  \/ SendTransmits
  \/ SendDone
  \/ SendThrowsAt("C")
  \/ SendThrowsAt("E")
  \/ ImplSettles

SpecErr == InitErr /\ [][NextErr]_vars

\* ------------------------------------------------------------- Node
\* The network of the Node test, cut to three nodes: node1 - node2 - node3
\* with a costly link between the ends.  Every link delays what it carries.
Nodes == {"node1", "node2", "node3"}

Connected == {{"node1", "node2"}, {"node2", "node3"}, {"node1", "node3"}}

\* _links of node n, each named by the node it leads to.
LinkTo(n) == {m \in Nodes : m # n /\ {n, m} \in Connected}

\* cost of the link from n to m
LinkCost(n, m) ==
  CASE {n, m} = {"node1", "node2"} -> 1
    [] {n, m} = {"node2", "node3"} -> 0
    [] OTHER -> 10

LinkPairs == {l \in Nodes \X Nodes : l[2] \in LinkTo(l[1])}

\* `${this.nodeName}#${endpointName}`
ReturnName(n, endpointName) == n \o "#" \o endpointName

EndpointNames == {"backend"} \cup {ReturnName(n, "backend") : n \in Nodes}

NoStep == [link |-> "", cost |-> 0]

\* IEnvelope; NoEnvelope for a message without msgEnvelope.
Envelope(dest, src) == [destEndpoint |-> dest, srcEndpoint |-> src]
NoEnvelope == Envelope("", "")

\* The advertisement of an endpoint: {mtype: Custom, data: null, name, cost}.
Advert(name, cost) ==
  [mtype |-> "Custom", name |-> name, cost |-> cost, reqId |-> 0,
   msgEnvelope |-> NoEnvelope]

\* A message of an Rpc.
RpcMsg(mtype, reqId) ==
  [mtype |-> mtype, name |-> "", cost |-> 0, reqId |-> reqId,
   msgEnvelope |-> NoEnvelope]

NodeCur ==
  [steps |-> steps, mine |-> mine, queue |-> queue, inFlight |-> inFlight,
   serving |-> serving, asked |-> asked]

NodeApply(s) ==
  /\ steps' = s.steps /\ mine' = s.mine /\ queue' = s.queue
  /\ inFlight' = s.inFlight /\ serving' = s.serving /\ asked' = s.asked
  /\ UNCHANGED rpcVars

\* link.sendMessage(msg) for each link of n to a node of L: the link holds
\* the message until its delay is over.
sendOnLinks(s, n, L, msg) ==
  [s EXCEPT !.inFlight = [l \in LinkPairs |->
                            IF l[1] = n /\ l[2] \in L THEN Append(@[l], msg) ELSE @[l]]]

\* receiveMessage(msg, reply) of the Rpc of an attached endpoint: a call
\* is served, and answered later through reply; a response settles the
\* call it answers.
rpcReceiveMessage(s, n, msg, altEnv) ==
  CASE msg.mtype = "RpcCall" ->
         [s EXCEPT !.serving = @ \cup {[node |-> n, reqId |-> msg.reqId, altEnv |-> altEnv]}]
    [] msg.mtype = "RpcRespData" /\ msg.reqId \in 1..Len(s.asked[msg.msgEnvelope.destEndpoint]) ->
         [s EXCEPT !.asked[msg.msgEnvelope.destEndpoint][msg.reqId] = "resolved"]
    [] OTHER -> s

\* A variant of deliver that does not queue.
deliverOrDrop(s, n, msg0, env) ==
  LET msg == [msg0 EXCEPT !.msgEnvelope = env] IN
  IF \E me \in s.mine[n] : me.name = env.destEndpoint
  THEN rpcReceiveMessage(s, n, msg, Envelope(env.srcEndpoint, env.destEndpoint))
  ELSE IF s.steps[n][env.destEndpoint] # NoStep
  THEN sendOnLinks(s, n, {s.steps[n][env.destEndpoint].link}, msg)
  ELSE s

\* Node.deliver
deliver(s, n, msg0, env) ==
  LET msg == [msg0 EXCEPT !.msgEnvelope = env] IN
  IF \E me \in s.mine[n] : me.name = env.destEndpoint
  THEN rpcReceiveMessage(s, n, msg, Envelope(env.srcEndpoint, env.destEndpoint))
  ELSE IF s.steps[n][env.destEndpoint] # NoStep
  THEN sendOnLinks(s, n, {s.steps[n][env.destEndpoint].link}, msg)
  ELSE [s EXCEPT !.queue[n] = Append(@, msg)]

\* for (const msg of pending) { this.deliver(msg, msg.msgEnvelope); }
RECURSIVE deliverAll(_, _, _)
deliverAll(s, n, pending) ==
  IF pending = <<>>
  THEN s
  ELSE deliverAll(deliver(s, n, Head(pending), Head(pending).msgEnvelope), n, Tail(pending))

\* A variant of _update that leaves the queue alone.
updateNothing(s, n) == s

\* Node._update
update(s, n) == deliverAll([s EXCEPT !.queue[n] = <<>>], n, s.queue[n])

\* Node.receiveInput, for the link of n that leads to node from.
receiveInput(s, n, from, data) ==
  CASE from \notin LinkTo(n) -> s
    [] data.msgEnvelope # NoEnvelope -> deliver(s, n, data, data.msgEnvelope)
    [] data.name # "" ->
         LET cost == data.cost + LinkCost(n, from)
             prevLink == s.steps[n][data.name]
         IN IF \E me \in s.mine[n] : me.name = data.name
            THEN s
            ELSE IF prevLink # NoStep /\ prevLink.cost < cost
            THEN s
            ELSE update(sendOnLinks([s EXCEPT !.steps[n][data.name] =
                                                [link |-> from, cost |-> cost]],
                                    n, LinkTo(n) \ {from}, Advert(data.name, cost)),
                        n)
    [] OTHER -> s

\* Node.addEndpoint
addEndpoint(s, n, name, target) ==
  LET s1 == [s EXCEPT !.mine[n] = {me \in @ : me.name # name}
                                    \cup {[name |-> name, target |-> target]}]
  IN update(sendOnLinks(s1, n, LinkTo(n), Advert(name, 0)), n)

\* Node.connect
connect(s, n, endpointName) ==
  IF \E me \in s.mine[n] : me.target = endpointName
  THEN s
  ELSE addEndpoint(s, n, ReturnName(n, endpointName), endpointName)

\* Node.listen
listen(s, n, endpointName) ==
  IF \E me \in s.mine[n] : me.name = endpointName /\ me.target = ""
  THEN s
  ELSE addEndpoint(s, n, endpointName, "")

\* A call on the Rpc of endpoint me: the Rpc passes the RpcCall to the
\* function that addEndpoint gave to start.
rpcCall(s, n, me) ==
  LET reqId == Len(s.asked[me.name]) + 1
      s1 == [s EXCEPT !.asked[me.name] = Append(@, "pending")]
  IN IF me.target = ""
     THEN s1
     ELSE deliver(s1, n, RpcMsg("RpcCall", reqId), Envelope(me.target, me.name))

\* The Rpc that serves call c answers: reply(msg), which is
\* (reply) => this.deliver(reply, altEnv).
rpcReplies(s, c) ==
  deliver([s EXCEPT !.serving = @ \ {c}], c.node, RpcMsg("RpcRespData", c.reqId), c.altEnv)

Listen(n, endpointName) ==
  /\ ~\E me \in mine[n] : me.name = endpointName
  /\ NodeApply(listen(NodeCur, n, endpointName))

Connect(n, endpointName) ==
  /\ ~\E me \in mine[n] : me.target = endpointName
  /\ NodeApply(connect(NodeCur, n, endpointName))

\* stub.add(4, 5) on node.getStub(endpointName, "calc")
NodeCall(n, endpointName) ==
  \E me \in mine[n] :
    /\ me.target = endpointName /\ Len(asked[me.name]) < MaxCalls
    /\ NodeApply(rpcCall(NodeCur, n, me))

\* The delay of the link from n to m is over for its first message:
\* m.receiveInput(`${m}->${n}`, msg).
LinkDelivers(n, m) ==
  /\ <<n, m>> \in LinkPairs /\ inFlight[<<n, m>>] # <<>>
  /\ NodeApply(receiveInput([NodeCur EXCEPT !.inFlight[<<n, m>>] = Tail(@)],
                            m, n, Head(inFlight[<<n, m>>])))

RpcReplies == \E c \in serving : NodeApply(rpcReplies(NodeCur, c))

InitNode ==
  /\ InitRpc(Wired({}), NoEntries, NoEntries, [e \in Rpcs |-> "plainCall"])
  /\ steps = [n \in Nodes |-> [e \in EndpointNames |-> NoStep]]
  /\ mine = [n \in Nodes |-> {}]
  /\ queue = [n \in Nodes |-> <<>>]
  /\ inFlight = [l \in LinkPairs |-> <<>>]
  /\ serving = {}
  /\ asked = [e \in EndpointNames |-> <<>>]

NextNode ==
  \/ Listen("node1", "backend")
  \/ \E n \in {"node1", "node3"} :
       /\ \A m \in Nodes : \A me \in mine[m] : me.target = ""
       /\ Connect(n, "backend")
  \/ \E n \in Nodes : NodeCall(n, "backend")
  \/ \E l \in LinkPairs : LinkDelivers(l[1], l[2])
  \/ RpcReplies

\* The timers of the links run out, and an implementation returns.
ProgressNode ==
  /\ \A l \in LinkPairs : WF_vars(LinkDelivers(l[1], l[2]))
  /\ WF_vars(RpcReplies)

SpecNode == InitNode /\ [][NextNode]_vars /\ ProgressNode

\* ------------------------------------------------------------- properties
Settled(p) == p.st \in {"resolved", "rejected"}

\* C1: every call A makes with its send function installed has its promise
\* settled eventually (resolved or rejected: the live peer's answer arrives
\* or the send fails): whenever calls are pending, a state follows in which
\* none is.  Once settled a promise never changes again, so it is settled
\* exactly once.
C1_CallSettledExactlyOnce ==
  /\ (\E r \in 1..MaxCalls : promise["A"][r].st = "pending")
        ~> (\A r \in 1..MaxCalls : promise["A"][r].st # "pending")
  /\ [][\A r \in 1..MaxCalls :
          Settled(promise["A"][r]) => promise["A"][r]' = promise["A"][r]]_vars

\* One call resolved by the peer's answer, another rejected by a failed send
\* whose answer had nothing to settle.
C1_Witness ==
  /\ promise["A"][1].st = "resolved" /\ promise["A"][1].code = "data"
  /\ promise["A"][2].st = "rejected" /\ promise["A"][2].code = "RPC_SEND_FAILED"
  /\ pendingCalls["A"] = {}
  /\ Idle /\ wire = [e \in Rpcs |-> <<>>]

\* C2: the envelopes an endpoint passes to its send function are in the order
\* in which they were handed to _sendMessage, whatever the interleaving of
\* direct sends, queued sends and drains.
C2_OutboundOrder ==
  \A i, j \in 1..Len(sentLog["A"]) :
    i < j => sentLog["A"][i].n < sentLog["A"][j].n

\* C3: envelopes are dispatched in the order in which receiveMessage got
\* them, those received while a drain of the inbound queue is in progress
\* included: no envelope is dispatched after one that arrived later.
C3_InboundOrder ==
  \A i, j \in 1..Len(dispatchLog["A"]) :
    i < j => dispatchLog["A"][i].n <= dispatchLog["A"][j].n

\* C4: every envelope receiveMessage accepted is dispatched exactly once:
\* never twice, and none is missing once the inbound queue has been drained,
\* also when a dispatch throws during processIncoming and processIncoming is
\* called again, and when processIncoming is called from inside a dispatch.
C4_DispatchedExactlyOnce ==
  /\ \A i, j \in 1..Len(dispatchLog["A"]) :
        i # j => dispatchLog["A"][i].n # dispatchLog["A"][j].n
  /\ (Idle /\ inactiveRecvQueue["A"].null) =>
        \A k \in 1..Len(recvLog["A"]) :
          \E i \in 1..Len(dispatchLog["A"]) : dispatchLog["A"][i] = recvLog["A"][k]

\* The calls among the envelopes handed to _sendMessage, in order.
CallsMade(e) == SelectSeq(handLog[e], LAMBDA m : m.mtype = "RpcCall")

\* C5: the request ids of an endpoint's calls are 1, 2, 3, ... in the order
\* the calls are made; an id in the pending table is always below the next id
\* to allocate, so a new call never takes the id of an unresolved one.
C5_RequestIdsFresh ==
  /\ \A i \in 1..Len(CallsMade("A")) : CallsMade("A")[i].reqId = i
  /\ nextRequestId["A"] = Len(CallsMade("A")) + 1
  /\ \A r \in pendingCalls["A"] : r < nextRequestId["A"] /\ promise["A"][r].st = "pending"

\* Two calls are pending at once.
C5_Witness == pendingCalls["A"] = {1, 2} /\ nextRequestId["A"] = 3

\* C6: whenever the endpoint is at rest, its outbound queue exists (is not
\* null) exactly when no send function is installed or the endpoint waits
\* for Ready -- also after a drain in which the send function threw.
C6_OutboundQueueInvariant ==
  Idle =>
    (~inactiveSendQueue["A"].null
       <=> (sendMessageCB["A"] = "null" \/ waitForReadyMessage["A"]))

\* The send callback throws out of a drain that setSendMessage started.
ThrowInDrain ==
  /\ TopIs("send") /\ Top(stack).origin = "drain"
  /\ ~stack[Len(stack) - 1].swallow
  /\ SendThrows

\* A drain emits its first envelope.
DrainStarts ==
  /\ TopIs("drainOut") /\ Top(stack).i = 0
  /\ inactiveSendQueue["A"].items # <<>>
  /\ DrainOutStep

SendFailure(m) ==
  /\ errorEvents["A"]' = errorEvents["A"] + 1
  /\ thrown' = "RPC_SEND_FAILED"
  /\ IF m.mtype = "RpcCall" /\ m.reqId \in pendingCalls["A"]
     THEN /\ pendingCalls["A"]' = pendingCalls["A"] \ {m.reqId}
          /\ promise["A"]' = [promise["A"] EXCEPT ![m.reqId] =
                                [@ EXCEPT !.st = "rejected", !.code = "RPC_SEND_FAILED",
                                           !.mesg = SendFailedMesg]]
     ELSE /\ pendingCalls' = pendingCalls
          /\ promise' = promise

\* C8: when the send of an envelope fails, by a throw of the send function
\* or by the rejection of the promise it returned, directly or in a drain,
\* an "error" event is emitted and RPC_SEND_FAILED is thrown on; if the
\* envelope is a call still pending, its entry is removed and its promise is
\* rejected with RPC_SEND_FAILED; otherwise the pending calls are untouched.
C8_SendFailure ==
  [][/\ SendThrows => SendFailure(Top(stack).msg)
     /\ \A p \in sendPromises :
          (Idle /\ TaskStep(sendPromiseRejects(Cur, p))) => SendFailure(p.msg)
    ]_vars

\* A call that was queued has been rejected by a send that threw in a drain.
C8_Witness ==
  /\ promise["A"][1].st = "rejected" /\ promise["A"][1].code = "RPC_SEND_FAILED"
  /\ errorEvents["A"] = 1 /\ pendingCalls["A"] = {}
  /\ thrown = "RPC_SEND_FAILED" /\ caughtBy = "caller"
  /\ sentLog["A"] = <<[MsgCall(1, "f", "invoke", "ok", "") EXCEPT !.n = 1]>>

Last(q) == q[Len(q)]

\* A Ready envelope is dispatched in this step.
ReadyDispatched ==
  /\ Len(dispatchLog["A"]') = Len(dispatchLog["A"]) + 1
  /\ Last(dispatchLog["A"]').mtype = "Ready"

\* While the endpoint waits for Ready nothing is passed to the send function,
\* whatever is installed.
C9_GateHolds ==
  (waitForReadyMessage["A"] /\ waitForReadyMessage["A"]') =>
    sentLog["A"]' = sentLog["A"]

\* Only the dispatch of a Ready ends the wait, and it does end it; with a
\* send function installed the drain of the queue starts in the same step.
C9_ReadyOpens ==
  /\ (waitForReadyMessage["A"] /\ ~waitForReadyMessage["A"]') => ReadyDispatched
  /\ (waitForReadyMessage["A"] /\ ReadyDispatched) =>
       /\ ~waitForReadyMessage["A"]'
       /\ sendMessageCB["A"] # "null" =>
            /\ stack' # <<>> /\ Top(stack').k = "drainOut" /\ Top(stack').i = 0
            /\ inactiveSendQueue["A"]' = inactiveSendQueue["A"]

\* The drain that the Ready which ended the wait started is in progress.
Opening == \E j \in 1..Len(stack) : stack[j].k = "drainOut" /\ stack[j].origin = "opened"

\* During that drain the queued envelopes are emitted in the order they were
\* queued: each one was handed over after all those emitted before.
C9_DrainInOrder ==
  (Opening /\ sentLog["A"]' # sentLog["A"]) =>
    /\ Len(sentLog["A"]') = Len(sentLog["A"]) + 1
    /\ \A i \in 1..Len(sentLog["A"]) : sentLog["A"][i].n < Last(sentLog["A"]').n

\* C9: after queueOutgoingUntilReadyMessage no envelope is passed to the send
\* function, installed or installed again, until a Ready is received; the
\* Ready ends the wait and the queued envelopes are emitted in the order they
\* were queued.
C9_GatedUntilReady ==
  [][C9_GateHolds /\ C9_ReadyOpens /\ C9_DrainInOrder]_vars

\* The gate alone, whatever the order of the emissions that follow it.
C9_Gate == [][C9_GateHolds /\ C9_ReadyOpens]_vars

NumReady(log) == Cardinality({i \in 1..Len(log) : log[i].mtype = "Ready"})

\* Both endpoints wait for Ready and no Ready is on its way to either.
BothGated ==
  /\ \A e \in Ep : waitForReadyMessage[e]
  /\ \A e \in Ep : NumReady(sentLog[e]) = NumReady(recvLog[Peer(e)])

\* Endpoint e waits for Ready, and its peer has passed to its send function a
\* Ready that e has not received yet.
ReadyOnItsWay(e) ==
  /\ waitForReadyMessage[e]
  /\ NumReady(sentLog[Peer(e)]) > NumReady(recvLog[e])

\* C10: once both endpoints have gated their outbound traffic, the Ready
\* each sends is queued behind its own gate: nothing is ever passed to a send
\* function again and both wait for ever.  When one endpoint waits and its
\* peer, not gated, has sent Ready, the waiting endpoint's queue is drained
\* eventually.
C10_ReadyHandshake ==
  /\ [][BothGated => (BothGated' /\ sentLog' = sentLog)]_vars
  /\ \A e \in Ep :
        ReadyOnItsWay(e) ~> (~waitForReadyMessage[e] /\ inactiveSendQueue[e].null)

\* Both endpoints gated and then called sendReadyMessage: both Readys are in
\* the queues, none was emitted.
C10_WitnessDeadlock ==
  /\ BothGated /\ Idle
  /\ \A e \in Ep : NumReady(inactiveSendQueue[e].items) = 1 /\ sentLog[e] = <<>>

\* A response to the pending call r of A is dispatched in this step.
AnsweredNow(r) ==
  /\ Len(dispatchLog["A"]') = Len(dispatchLog["A"]) + 1
  /\ Last(dispatchLog["A"]').mtype \in {"RpcRespData", "RpcRespErr"}
  /\ Last(dispatchLog["A"]').reqId = r

\* C11: tearing the endpoint down (rpc.close()) rejects every call still in
\* the pending table and leaves the table empty; and a call leaves the
\* pending table only in a step that dispatches a response carrying its id,
\* in a step in which a send fails, or in the teardown.
C11_Teardown ==
  [][/\ Close("A") =>
          /\ pendingCalls["A"]' = {}
          /\ \A r \in pendingCalls["A"] : promise["A"][r]'.st = "rejected"
     /\ \A r \in pendingCalls["A"] \ pendingCalls["A"]' :
          AnsweredNow(r) \/ thrown' = "RPC_SEND_FAILED" \/ Close("A")
    ]_vars

\* The promise p has settled to what the result r says.
SettledAs(p, r) ==
  IF r.throws
  THEN p.st = "rejected" /\ p.code = r.code /\ p.mesg = r.mesg
  ELSE p.st = "resolved" /\ p.code = r.code

\* C12: a call made with callRemoteFunc to a function that the peer has
\* registered with registerFunc, over a working channel, settles only to what
\* the function did with that call (resolved to the value it returned,
\* rejected with the code and the message of the error it threw), and it has
\* settled so once the endpoints have come to rest.
C12_FuncRoundTrip ==
  /\ \A r \in 1..MaxIds :
       Settled(promise["A"][r]) =>
         \E j \in 1..Len(invokeLog["B"]) :
           /\ invokeLog["B"][j].call.reqId = r
           /\ SettledAs(promise["A"][r], invokeLog["B"][j].result)
  /\ Quiescent =>
       /\ Len(invokeLog["B"]) = nextRequestId["A"] - 1
       /\ \A j \in 1..Len(invokeLog["B"]) :
            SettledAs(promise["A"][invokeLog["B"][j].call.reqId], invokeLog["B"][j].result)

\* One call has resolved to the value the function returned, the other has
\* been rejected with the code and the message of the error it threw.
C12_Witness ==
  /\ Quiescent /\ Len(invokeLog["B"]) = 2
  /\ invokeLog["B"][1].result = Returns("v1")
  /\ invokeLog["B"][2].result = Throws("E1", "m1")
  /\ promise["A"][1] = [st |-> "resolved", code |-> "v1", mesg |-> "", chk |-> "any"]
  /\ promise["A"][2] = [st |-> "rejected", code |-> "E1", mesg |-> "m1", chk |-> "any"]

\* C13: with several calls pending, in whatever order the responses come, a
\* response settles the call whose reqId it carries (resolved with its data,
\* or rejected with its code and message), removes that entry only from the
\* pending table, and leaves every other call's promise as it was.
C13_ResponsesAnyOrder ==
  [][\A r \in pendingCalls["A"] :
       AnsweredNow(r) =>
         LET resp == Last(dispatchLog["A"]') IN
         /\ pendingCalls["A"]' = pendingCalls["A"] \ {r}
         /\ promise["A"][r]'.st =
              (IF resp.mtype = "RpcRespErr" THEN "rejected" ELSE "resolved")
         /\ promise["A"][r]'.code = resp.data
         /\ promise["A"][r]'.mesg = resp.mesg
         /\ \A q \in (1..MaxIds) \ {r} : promise["A"][q]' = promise["A"][q]
    ]_vars

\* Two calls were pending; the response to the second came first and was an
\* error, the response to the first came after it.
C13_Witness ==
  /\ Len(dispatchLog["A"]) = 2
  /\ dispatchLog["A"][1].mtype = "RpcRespErr" /\ dispatchLog["A"][1].reqId = 2
  /\ dispatchLog["A"][2].mtype = "RpcRespData" /\ dispatchLog["A"][2].reqId = 1
  /\ promise["A"][2].st = "rejected" /\ promise["A"][2].code = "E_REMOTE"
  /\ promise["A"][1].st = "resolved" /\ promise["A"][1].code = "data"
  /\ pendingCalls["A"] = {}

\* Endpoint e dispatches an envelope in this step.
Dispatches(e) == Len(dispatchLog[e]') = Len(dispatchLog[e]) + 1

\* In this step endpoint e hands to its send path one envelope, which
\* agrees with m in all but the fields given in Except.
HandsOver(e, m, Except) ==
  /\ Len(handLog[e]') = Len(handLog[e]) + 1
  /\ \A fld \in {"mtype", "data", "meth", "args", "mdest", "mesg", "reqId"} \ Except :
       Last(handLog[e]')[fld] = m[fld]

\* The forwarder that B's map gives for mdest: the one of that name, else
\* the wildcard, else none.
Chosen(mdest) ==
  IF \E i \in forwarders["B"] : i.name = mdest
  THEN {i \in forwarders["B"] : i.name = mdest}
  ELSE {i \in forwarders["B"] : i.name = "*"}

\* C14: a call with a non-empty fwdDest that B dispatches is never given to
\* a local implementation, although B has registered its interface.  If it
\* carries a reqId, the destination endpoint of the forwarder of that name,
\* else of the wildcard forwarder, makes the call and no other endpoint sends
\* anything; with neither forwarder B answers RPC_UNKNOWN_FORWARD_DEST under
\* the call's reqId.  A call without reqId is dropped with no response: no
\* endpoint sends anything (where a forwarder is chosen for it, the call fails
\* the check of the reqId that precedes every invocation).
C14_ForwardRouting ==
  [][Dispatches("B") =>
       LET c == Last(dispatchLog["B"]') IN
       (c.mtype = "RpcCall" /\ c.mdest # "") =>
         /\ invokeLog["B"]' = invokeLog["B"]
         /\ \E i \in implMap["B"] : i.name = c.data
         /\ IF c.reqId # 0 /\ Chosen(c.mdest) # {}
            THEN \A i \in Chosen(c.mdest) :
                   /\ HandsOver(i.dest, c, {"reqId", "mdest"})
                   /\ \A e \in Rpcs \ {i.dest} : handLog[e]' = handLog[e]
            ELSE IF c.reqId # 0
            THEN /\ HandsOver("B", MsgRespErr(c.reqId, "RPC_UNKNOWN_FORWARD_DEST",
                                              "Unknown forward destination"), {})
                 /\ \A e \in Rpcs \ {"B"} : handLog[e]' = handLog[e]
            ELSE handLog' = handLog
    ]_vars

\* B has a forwarder for "d" and a wildcard forwarder; the call of A with
\* fwdDest "x" was made by the wildcard forwarder's destination E and
\* answered by F, the call with fwdDest "d" by C and D; B's own "f" was
\* never invoked.
C14_Witness ==
  /\ Quiescent
  /\ {i.name : i \in forwarders["B"]} = {"d", "*"}
  /\ Len(dispatchLog["B"]) = 2
  /\ dispatchLog["B"][1].mdest = "x" /\ dispatchLog["B"][2].mdest = "d"
  /\ Len(handLog["E"]) = 1 /\ Len(handLog["C"]) = 1
  /\ Len(invokeLog["F"]) = 1 /\ invokeLog["B"] = <<>>
  /\ promise["A"][1].st = "resolved"

\* B has no forwarder; a call with fwdDest "x" and no reqId was dropped, and
\* one with a reqId was answered with RPC_UNKNOWN_FORWARD_DEST.
C14_WitnessUnknown ==
  /\ Quiescent /\ forwarders["B"] = {}
  /\ Len(dispatchLog["B"]) = 2
  /\ dispatchLog["B"][1].reqId = 0 /\ dispatchLog["B"][1].mdest = "x"
  /\ dispatchLog["B"][2].reqId = 1
  /\ Len(handLog["B"]) = 1
  /\ promise["A"][1].st = "rejected"
  /\ promise["A"][1].code = "RPC_UNKNOWN_FORWARD_DEST"

\* C15: when a forwarder of B passes on a call (which carries a reqId) or a
\* Custom message, its destination endpoint hands to its send path an
\* envelope of the same type whose fwdDest is the one received if the
\* forwarder's policy is "*", and the policy (possibly "") otherwise, and
\* whose iface, meth and args (call) or data (Custom) are those received.
C15_ForwardPolicy ==
  [][Dispatches("B") =>
       LET m == Last(dispatchLog["B"]') IN
       (/\ m.mdest # "" /\ Chosen(m.mdest) # {}
        /\ \/ m.mtype = "RpcCall" /\ m.reqId # 0
           \/ m.mtype = "Custom") =>
         \A i \in Chosen(m.mdest) :
           /\ HandsOver(i.dest, m, {"reqId", "mdest"})
           /\ Last(handLog[i.dest]').mdest =
                (IF i.fwdDest = "*" THEN m.mdest ELSE i.fwdDest)
    ]_vars

\* B's wildcard forwarder passes through and its forwarder for "d" has the
\* policy "": a call with fwdDest "x" and arguments "bad" left E with both,
\* and a message "n" with fwdDest "d" left C without fwdDest and was emitted
\* by D.
C15_Witness ==
  /\ Quiescent
  /\ \E i \in forwarders["B"] : i.name = "*" /\ i.fwdDest = "*"
  /\ \E i \in forwarders["B"] : i.name = "d" /\ i.fwdDest = ""
  /\ Len(handLog["E"]) = 1 /\ Len(handLog["C"]) = 1
  /\ handLog["E"][1].mtype = "RpcCall" /\ handLog["E"][1].mdest = "x"
  /\ handLog["E"][1].args = "bad" /\ handLog["E"][1].data = "f"
  /\ handLog["C"][1].mtype = "Custom" /\ handLog["C"][1].mdest = ""
  /\ messageEvents["D"] = <<"n">>

\* What the implementation did that the call which endpoint e received under
\* reqId r ended in: the local one, or the one reached through the
\* forwarder that e gave the call to.
RECURSIVE Served(_, _)
Served(e, r) ==
  {invokeLog[e][j].result : j \in {k \in 1..Len(invokeLog[e]) : invokeLog[e][k].call.reqId = r}}
  \cup UNION {Served(Peer(h.dest), h.req) : h \in {g \in fwdLog : g.e = e /\ g.call.reqId = r}}

\* The response m reports the settled promise p.
Reports(m, p) ==
  IF p.st = "rejected"
  THEN m.mtype = "RpcRespErr" /\ m.data = p.code /\ m.mesg = p.mesg
  ELSE p.st = "resolved" /\ m.mtype = "RpcRespData" /\ m.data = p.code

\* C16: in a chain of forwarders every endpoint numbers the calls it makes,
\* its own and those it makes for a forwarder, 1, 2, 3, ... from its own
\* counter; the call made for a forwarder repeats iface, meth and args of
\* the call received; the response a forwarding endpoint gives carries the
\* reqId of the call it received and reports the outcome of the call it made
\* for it; and a call of the origin A that ended in an implementation
\* settles only to what that implementation did, under A's own reqId, and has
\* settled so once the chain has come to rest.
C16_ForwardChain ==
  /\ \A e \in Rpcs : \A i \in 1..Len(CallsMade(e)) : CallsMade(e)[i].reqId = i
  /\ \A h \in fwdLog :
       /\ h.req \in 1..Len(CallsMade(h.dest))
       /\ \A fld \in {"data", "meth", "args"} : CallsMade(h.dest)[h.req][fld] = h.call[fld]
       /\ \A j \in 1..Len(handLog[h.e]) :
            LET m == handLog[h.e][j] IN
            (m.mtype \in {"RpcRespData", "RpcRespErr"} /\ m.reqId = h.call.reqId) =>
              Reports(m, promise[h.dest][h.req])
  /\ \A r \in 1..(nextRequestId["A"] - 1) :
       \A x \in Served("B", r) :
         /\ Settled(promise["A"][r]) =>
              /\ SettledAs(promise["A"][r], x)
              /\ \E j \in 1..Len(dispatchLog["A"]) :
                   dispatchLog["A"][j].reqId = r /\ Reports(dispatchLog["A"][j], promise["A"][r])
         /\ Quiescent => SettledAs(promise["A"][r], x)
\* The second call of A went through two forwarders, at B and at D, each of
\* which made it as its own call 1; the implementation at F threw, and A's
\* call 2 was rejected with that error.
C16_Witness ==
  /\ Quiescent
  /\ \E h \in fwdLog : h.e = "B" /\ h.call.reqId = 2 /\ h.dest = "C" /\ h.req = 1
  /\ \E h \in fwdLog : h.e = "D" /\ h.call.reqId = 1 /\ h.dest = "E" /\ h.req = 1
  /\ Len(invokeLog["F"]) = 1 /\ invokeLog["F"][1].result = Throws("E_IMPL", "boom")
  /\ promise["A"][2].st = "rejected" /\ promise["A"][2].code = "E_IMPL"
  /\ promise["A"][2].mesg = "boom"
  /\ promise["A"][1].st = "resolved"

\* The calls that endpoint e has dispatched.
CallsDispatched(e) ==
  {dispatchLog[e][j] : j \in {k \in 1..Len(dispatchLog[e]) : dispatchLog[e][k].mtype = "RpcCall"}}

\* C17: a forwarder registered without the policy argument has the policy ""
\* if its name is not "*" and passes through if it is "*".  So a call that B
\* gives to its wildcard forwarder, having no forwarder of the call's
\* fwdDest, is made on the other channel with the same fwdDest, and a call
\* that B gives to a forwarder of that name is made without fwdDest; the
\* peer D dispatches the call that still has its fwdDest to its own
\* forwarder of that name, which makes it without fwdDest, so that it reaches
\* the implementation at F.
C17_DefaultPolicy ==
  /\ \A e \in Rpcs : \A i \in forwarders[e] :
       i.fwdDest = (IF i.name = "*" THEN "*" ELSE "")
  /\ \A h \in fwdLog :
       CallsMade(h.dest)[h.req].mdest =
         (IF h.e = "B" /\ ~\E i \in forwarders["B"] : i.name = h.call.mdest
          THEN h.call.mdest ELSE "")
  /\ \A c \in CallsDispatched("D") :
       (c.mdest # "" /\ \E i \in forwarders["D"] : i.name = c.mdest) =>
         \E h \in fwdLog : h.e = "D" /\ h.call = c /\ h.dest = "E"
  /\ \A c \in CallsDispatched("F") :
       \E j \in 1..Len(invokeLog["F"]) : invokeLog["F"][j].call = c

\* B has only the wildcard forwarder and D a forwarder for "x": A's call
\* with fwdDest "x" left C with fwdDest "x" and E without, and was answered
\* by the implementation at F.
C17_Witness ==
  /\ Quiescent
  /\ {i.name : i \in forwarders["B"]} = {"*"}
  /\ \E i \in forwarders["D"] : i.name = "x"
  /\ Len(handLog["C"]) = 1 /\ handLog["C"][1].mdest = "x"
  /\ Len(handLog["E"]) = 1 /\ handLog["E"][1].mdest = ""
  /\ Len(invokeLog["F"]) = 1
  /\ promise["A"][1].st = "resolved" /\ promise["A"][1].code = "data"

\* The registration of B under the interface name of call c, if any.
Registered(c) == {i \in implMap["B"] : i.name = c.data}

\* The first check that call c fails at B, in the order unknown interface,
\* unknown method, invalid arguments, missing reqId; "" if it passes all.
FirstFailing(c) ==
  IF Registered(c) = {} THEN "RPC_UNKNOWN_INTERFACE"
  ELSE IF \E i \in Registered(c) : i.checker # "none" /\ c.meth \notin i.meths
  THEN "RPC_UNKNOWN_METHOD"
  ELSE IF \E i \in Registered(c) : i.checker = "typed" /\ c.args = "bad"
  THEN "RPC_INVALID_ARGS"
  ELSE IF c.reqId = 0 THEN "RPC_MISSING_REQID"
  ELSE ""

\* B gives call c to its implementation in this step.
Invokes(c) ==
  /\ Len(invokeLog["B"]') = Len(invokeLog["B"]) + 1
  /\ Last(invokeLog["B"]').call = c

\* C18: when B dispatches a call without fwdDest, it reports the first
\* check the call fails, in the order unknown interface, unknown method (for
\* an implementation with a checker), invalid arguments, missing reqId: that
\* code goes to the logger and, if the call has a reqId, into the error
\* response under that reqId; the implementation is not invoked.  The
\* implementation is invoked, and nothing reported, only if the call passes
\* all the checks.
C18_CheckOrder ==
  [][Dispatches("B") =>
       LET c == Last(dispatchLog["B"]') IN
       (c.mtype = "RpcCall" /\ c.mdest = "") =>
         IF FirstFailing(c) # ""
         THEN /\ warnLog["B"]' = Append(warnLog["B"], FirstFailing(c))
              /\ invokeLog' = invokeLog
              /\ implPromises' = implPromises
              /\ IF c.reqId # 0
                 THEN HandsOver("B", MsgRespErr(c.reqId, FirstFailing(c), ""), {"mesg"})
                 ELSE handLog' = handLog
         ELSE /\ Invokes(c)
              /\ warnLog' = warnLog
              /\ handLog' = handLog
    ]_vars

\* B was given two calls without reqId: one for a method that the checker of
\* "calc" does not know, one for "add" with invalid arguments.  It reported
\* the method and the arguments, not the reqId, and invoked nothing.
C18_Witness ==
  /\ Quiescent /\ Len(dispatchLog["B"]) = 2
  /\ dispatchLog["B"][1].reqId = 0 /\ dispatchLog["B"][1].meth = "additionify"
  /\ dispatchLog["B"][2].reqId = 0 /\ dispatchLog["B"][2].meth = "add"
  /\ warnLog["B"] = <<"RPC_UNKNOWN_METHOD", "RPC_INVALID_ARGS">>
  /\ invokeLog["B"] = <<>>

\* Call c has no reqId and passes the checks of interface, method and
\* arguments at B.
OnlyReqIdMissing(c) ==
  c.mtype = "RpcCall" /\ c.mdest = "" /\ FirstFailing(c) = "RPC_MISSING_REQID"

MissingMethodCalls ==
  {r \in 1..Len(CallsMade("A")) :
     CallsMade("A")[r].data = "calcAny" /\ CallsMade("A")[r].meth = "additionify"}

\* The error responses that B has handed to its send path for call r.
ErrorsFor(r) ==
  {handLog["B"][j] : j \in {k \in 1..Len(handLog["B"]) :
     handLog["B"][k].mtype = "RpcRespErr" /\ handLog["B"][k].reqId = r}}

\* C20 as claimed: a call for a method that the object registered without a
\* checker does not have is answered with an error of code UNKNOWN_METHOD,
\* and the caller's promise is rejected with that code.
C20_UnknownMethodCode ==
  \A r \in MissingMethodCalls :
    /\ \A m \in ErrorsFor(r) : m.data = "UNKNOWN_METHOD"
    /\ Settled(promise["A"][r]) =>
         promise["A"][r].st = "rejected" /\ promise["A"][r].code = "UNKNOWN_METHOD"

\* C20, amended: a call for a method that the object registered without a
\* checker does not have is answered with an error response that has no
\* code and carries the message of the TypeError thrown by the invocation
\* ("... is not a function"); the caller's promise is rejected with an error
\* with that message and no code, and it has been once the endpoints have
\* come to rest.
C20_UnknownMethodTypeError ==
  \A r \in MissingMethodCalls :
    /\ \A m \in ErrorsFor(r) : m.data = "" /\ m.mesg = "is not a function"
    /\ Settled(promise["A"][r]) =>
         /\ promise["A"][r].st = "rejected"
         /\ promise["A"][r].code = "" /\ promise["A"][r].mesg = "is not a function"
         /\ ErrorsFor(r) # {}
    /\ Quiescent => Settled(promise["A"][r])

\* A called calcAny.additionify; B answered with the TypeError's message and
\* no code, and A's promise is rejected with them.
C20_Witness ==
  /\ Quiescent /\ 1 \in MissingMethodCalls
  /\ promise["A"][1].st = "rejected"
  /\ promise["A"][1].code = "" /\ promise["A"][1].mesg = "is not a function"
  /\ warnLog["B"] = <<"RPC_ONCALL_ERROR">>

\* The argument list of call c has a number at each of the two positions of
\* add's parameters.
TwoNumbersFirst(c) ==
  LET a == ArgList(c.args) IN
  Len(a) >= 2 /\ a[1] = "number" /\ a[2] = "number"

\* C21: when B dispatches a call of calc.add, registered with the checker of
\* ICalc: if an argument has the wrong type or a required argument is
\* missing, B answers under the call's reqId with an error response of code
\* RPC_INVALID_ARGS and does not invoke the implementation; if the two
\* required arguments are numbers, also when more arguments follow them, B
\* invokes the implementation and reports nothing.  The caller's promise of
\* a call that failed the check is rejected with RPC_INVALID_ARGS once the
\* endpoints have come to rest.
C21_InvalidArgs ==
  /\ [][Dispatches("B") =>
          LET c == Last(dispatchLog["B"]') IN
          IF TwoNumbersFirst(c)
          THEN Invokes(c) /\ warnLog' = warnLog /\ handLog' = handLog
          ELSE /\ HandsOver("B", MsgRespErr(c.reqId, "RPC_INVALID_ARGS", ""), {"mesg"})
               /\ invokeLog' = invokeLog /\ implPromises' = implPromises
       ]_vars
  /\ [](Quiescent =>
          \A r \in 1..Len(CallsMade("A")) :
            IF TwoNumbersFirst(CallsMade("A")[r])
            THEN \E j \in 1..Len(invokeLog["B"]) :
                   /\ invokeLog["B"][j].call.reqId = r
                   /\ SettledAs(promise["A"][r], invokeLog["B"][j].result)
            ELSE /\ promise["A"][r].st = "rejected"
                 /\ promise["A"][r].code = "RPC_INVALID_ARGS")

\* A called add(1) and then add(10, 9, 8): the first was rejected with
\* RPC_INVALID_ARGS for the missing argument, the second was invoked and
\* resolved.
C21_Witness ==
  /\ Quiescent /\ Len(CallsMade("A")) = 2
  /\ CallsMade("A")[1].args = "one" /\ CallsMade("A")[2].args = "extra"
  /\ promise["A"][1].st = "rejected" /\ promise["A"][1].code = "RPC_INVALID_ARGS"
  /\ promise["A"][1].mesg = "is missing"
  /\ Len(invokeLog["B"]) = 1 /\ invokeLog["B"][1].call.args = "extra"
  /\ promise["A"][2].st = "resolved" /\ promise["A"][2].code = "data"

\* C22: when A dispatches a RespData or RespErr whose reqId is not in its
\* pending table (the call was never made, was answered already, or was
\* rejected by a failed send), nothing happens: no promise changes, the
\* pending table, the queues, the send function, the gate and the request
\* counter are as before, nothing is handed to the send path or to the send
\* function, no event is emitted and nothing is thrown.
C22_UnknownReqIdDropped ==
  [][Dispatches("A") =>
       LET m == Last(dispatchLog["A"]') IN
       (m.mtype \in {"RpcRespData", "RpcRespErr"} /\ m.reqId \notin pendingCalls["A"]) =>
         /\ promise' = promise /\ pendingCalls' = pendingCalls
         /\ nextRequestId' = nextRequestId
         /\ handLog' = handLog /\ sentLog' = sentLog /\ wire' = wire
         /\ inactiveSendQueue' = inactiveSendQueue /\ inactiveRecvQueue' = inactiveRecvQueue
         /\ sendMessageCB' = sendMessageCB /\ waitForReadyMessage' = waitForReadyMessage
         /\ implMap' = implMap /\ forwarders' = forwarders
         /\ stack' = stack /\ sendPromises' = sendPromises /\ implPromises' = implPromises
         /\ messageEvents' = messageEvents /\ errorEvents' = errorEvents
         /\ thrown' = ""
    ]_vars

\* Call 1 was resolved by its response and a second, different response to
\* it was dropped; call 2 was rejected by a failed send.
C22_Witness ==
  /\ Len(dispatchLog["A"]) = 2
  /\ dispatchLog["A"][1].mtype = "RpcRespData" /\ dispatchLog["A"][1].reqId = 1
  /\ dispatchLog["A"][2].mtype = "RpcRespErr" /\ dispatchLog["A"][2].reqId = 1
  /\ promise["A"][1].st = "resolved" /\ promise["A"][1].code = "data"
  /\ promise["A"][2].st = "rejected" /\ promise["A"][2].code = "RPC_SEND_FAILED"
  /\ pendingCalls["A"] = {}

\* A response came for a call whose send had failed, and one for a call
\* that was never made: the first promise is still rejected with
\* RPC_SEND_FAILED, the second does not exist.
C22_WitnessNeverIssued ==
  /\ Len(dispatchLog["A"]) = 2 /\ nextRequestId["A"] = 2
  /\ dispatchLog["A"][1].reqId = 1 /\ dispatchLog["A"][2].reqId = 2
  /\ promise["A"][1].st = "rejected" /\ promise["A"][1].code = "RPC_SEND_FAILED"
  /\ promise["A"][2].st = "none"

\* C23: when A dispatches the RespData for a pending call made through a
\* checked stub and its data fail the result checker, the call's promise is
\* rejected with code RPC_INVALID_RESULT, its entry alone leaves the pending
\* table, every other promise stays as it was, and A hands nothing to its
\* send path or send function and emits no event.  Data that pass the
\* checker, and any data for a call made through an unchecked stub, resolve
\* the promise.
C23_InvalidResult ==
  [][\A r \in pendingCalls["A"] :
       (AnsweredNow(r) /\ Last(dispatchLog["A"]').mtype = "RpcRespData") =>
         LET m == Last(dispatchLog["A"]') IN
         /\ pendingCalls["A"]' = pendingCalls["A"] \ {r}
         /\ \A q \in (1..MaxIds) \ {r} : promise["A"][q]' = promise["A"][q]
         /\ IF promise["A"][r].chk = "typed" /\ m.data = "invalid"
            THEN /\ promise["A"][r]'.st = "rejected"
                 /\ promise["A"][r]'.code = "RPC_INVALID_RESULT"
                 /\ handLog' = handLog /\ sentLog' = sentLog
                 /\ wire["A"]' = wire["A"] /\ stack' = stack
                 /\ errorEvents' = errorEvents /\ messageEvents' = messageEvents
            ELSE /\ promise["A"][r]'.st = "resolved"
                 /\ promise["A"][r]'.code = m.data
    ]_vars

\* B's add returned a value that is not a number to both calls: the call
\* made through the checked stub was rejected with RPC_INVALID_RESULT, the
\* one made through the unchecked stub resolved to the value; A sent nothing
\* but its two calls.
C23_Witness ==
  /\ Quiescent /\ Len(invokeLog["B"]) = 2
  /\ \A j \in 1..2 : invokeLog["B"][j].result = Returns("invalid")
  /\ promise["A"][1].chk = "typed" /\ promise["A"][1].st = "rejected"
  /\ promise["A"][1].code = "RPC_INVALID_RESULT"
  /\ promise["A"][2].chk = "any" /\ promise["A"][2].st = "resolved"
  /\ promise["A"][2].code = "invalid"
  /\ pendingCalls["A"] = {} /\ Len(handLog["A"]) = 2

\* The forwarder that the map of endpoint e gives for mdest: the one of that
\* name, else the wildcard, else none.
ChosenAt(e, mdest) ==
  IF \E i \in forwarders[e] : i.name = mdest
  THEN {i \in forwarders[e] : i.name = mdest}
  ELSE {i \in forwarders[e] : i.name = "*"}

\* C24: when an endpoint dispatches a Custom envelope without fwdDest, it
\* emits one "message" event with the envelope's data, and nothing is handed
\* to a send path.  When the envelope has a fwdDest, no "message" event is
\* emitted anywhere in that step: with a forwarder of that name, else a
\* wildcard forwarder, the forwarder's destination endpoint posts a Custom
\* envelope with the same data and no other endpoint sends anything; with
\* neither, nothing is handed to a send path, no event is emitted and no
\* promise changes.
C24_CustomRouting ==
  [][\A e \in Rpcs :
       Dispatches(e) =>
         LET m == Last(dispatchLog[e]') IN
         m.mtype = "Custom" =>
           IF m.mdest = ""
           THEN /\ messageEvents' = [messageEvents EXCEPT ![e] = Append(@, m.data)]
                /\ handLog' = handLog
           ELSE /\ messageEvents' = messageEvents
                /\ IF ChosenAt(e, m.mdest) # {}
                   THEN \A i \in ChosenAt(e, m.mdest) :
                          /\ HandsOver(i.dest, m, {"mdest", "reqId"})
                          /\ \A e2 \in Rpcs \ {i.dest} : handLog[e2]' = handLog[e2]
                   ELSE /\ handLog' = handLog /\ sentLog' = sentLog
                        /\ errorEvents' = errorEvents /\ promise' = promise
                        /\ stack' = stack
    ]_vars

\* B has a forwarder for "d" to C with the policy "": the message "m" that A
\* posted with fwdDest "d" was emitted by D and not by B, and the message "n"
\* posted with fwdDest "x", for which B has no forwarder, was emitted nowhere
\* and answered by nobody.
C24_Witness ==
  /\ Quiescent
  /\ {i.name : i \in forwarders["B"]} = {"d"}
  /\ \E i \in forwarders["B"] : i.fwdDest = ""
  /\ Len(dispatchLog["B"]) = 2
  /\ dispatchLog["B"][1].mtype = "Custom" /\ dispatchLog["B"][1].mdest = "d"
  /\ dispatchLog["B"][1].data = "m"
  /\ dispatchLog["B"][2].mtype = "Custom" /\ dispatchLog["B"][2].mdest = "x"
  /\ dispatchLog["B"][2].data = "n"
  /\ messageEvents = [e \in Rpcs |-> IF e = "D" THEN <<"m">> ELSE <<>>]
  /\ Len(handLog["C"]) = 1 /\ handLog["B"] = <<>>

\* No "message" event for "a" follows one for "b" at endpoint e.
EventsInOrder(e) ==
  \A i, j \in 1..Len(messageEvents[e]) :
    (messageEvents[e][i] = "a" /\ messageEvents[e][j] = "b") => i < j

\* C25: A posts "a" and then "b" over a channel that keeps the order: the
\* peer B emits every "message" event for "a" before every one for "b",
\* whether the two envelopes were sent directly, were both queued, or one
\* was queued and the other sent after the drain.
C25_PostOrder == EventsInOrder("B")

\* As long as A has passed its envelopes to the send function in the order
\* in which they were handed to _sendMessage, B emits "a" before "b".
C25_OrderIfSentInOrder ==
  (\A i, j \in 1..Len(sentLog["A"]) : i < j => sentLog["A"][i].n < sentLog["A"][j].n)
    => EventsInOrder("B")

\* Both messages were queued, drained and emitted by B in order.
C25_WitnessQueued ==
  /\ Quiescent /\ messageEvents["B"] = <<"a", "b">>
  /\ Len(sentLog["A"]) = 2 /\ inactiveSendQueue["A"].null
  /\ Len(dispatchLog["A"]) = 1

\* processQueue over the queue named by kind comes to its end in this step:
\* its loop has passed the last entry and the drain returns.
DrainCompletes(kind) == TopIs(kind) /\ stack' = Pop(stack)

\* C26: in the state in which a drain has just completed, draining again
\* changes nothing.  After processIncoming has returned, processIncoming
\* leaves every field of the endpoint, every log and every event as it is;
\* after the outbound drain has returned, setSendMessage with the function
\* that is installed does.
C26_DrainIdempotent ==
  [][/\ DrainCompletes("drainIn") => (processIncoming(Cur, "A") = Cur)'
     /\ DrainCompletes("drainOut") =>
          (setSendMessage(Cur, "A", sendMessageCB["A"]) = Cur)'
    ]_vars

\* The outbound drain has passed both queued envelopes to the send function
\* and is about to return.
C26_Witness ==
  /\ TopIs("drainOut") /\ Len(stack) = 1 /\ Top(stack).i = 2
  /\ Len(inactiveSendQueue["A"].items) = 2
  /\ Len(sentLog["A"]) = 2 /\ sendMessageCB["A"] = "fn"

\* An envelope was posted, queued and drained; processIncoming has
\* dispatched the one envelope of the inbound queue, the listener has
\* returned, and processIncoming is about to return.
C26_WitnessIn ==
  /\ TopIs("drainIn") /\ Len(stack) = 1 /\ Top(stack).i = 1
  /\ Len(inactiveRecvQueue["A"].items) = 1
  /\ messageEvents["A"] = <<"m">>
  /\ Len(sentLog["A"]) = 1 /\ inactiveSendQueue["A"].null

\* The call envelope with reqId r is among the envelopes of q.
HasCall(q, r) == \E i \in 1..Len(q) : q[i].mtype = "RpcCall" /\ q[i].reqId = r

\* C27: in every reachable state, every call in A's pending table has had
\* its envelope passed to the send function or has it in the outbound queue.
C27_PendingEmittedOrQueued ==
  \A r \in pendingCalls["A"] :
    \/ HasCall(sentLog["A"], r)
    \/ ~inactiveSendQueue["A"].null /\ HasCall(inactiveSendQueue["A"].items, r)

\* As long as the envelopes passed to the send function are the first, the
\* second, ... of those handed to _sendMessage, none twice, every pending
\* call has been passed to the send function or is queued.
C27_IfSentInOrder ==
  (\A i \in 1..Len(sentLog["A"]) : sentLog["A"][i].n = i) => C27_PendingEmittedOrQueued

\* Two calls are pending: the first was queued, drained and passed to the
\* send function; the second was made after the endpoint was gated and is
\* in the queue.
C27_Witness ==
  /\ pendingCalls["A"] = {1, 2} /\ Idle
  /\ HasCall(sentLog["A"], 1) /\ ~HasCall(sentLog["A"], 2)
  /\ ~inactiveSendQueue["A"].null /\ HasCall(inactiveSendQueue["A"].items, 2)
  /\ ~HasCall(inactiveSendQueue["A"].items, 1)
  /\ waitForReadyMessage["A"]

\* While A has no send function, nothing is passed to a send function of A,
\* every envelope A hands to its send path (its calls, its responses to the
\* calls of B) is added at the end of the outbound queue, and the calls in
\* the queue are pending, neither resolved nor rejected.
C28_QueuedWhileInactive ==
  /\ [][sendMessageCB["A"] = "null" =>
          /\ sentLog["A"]' = sentLog["A"]
          /\ ~inactiveSendQueue["A"].null
          /\ IF Len(handLog["A"]') = Len(handLog["A"]) + 1
             THEN inactiveSendQueue["A"]'.items =
                    Append(inactiveSendQueue["A"].items, Last(handLog["A"]'))
             ELSE inactiveSendQueue["A"]'.items = inactiveSendQueue["A"].items
       ]_vars
  /\ [](sendMessageCB["A"] = "null" =>
          \A r \in 1..MaxIds :
            HasCall(inactiveSendQueue["A"].items, r) => promise["A"][r].st = "pending")

\* Once the endpoints have come to rest with a send function installed at
\* A, the outbound queue of A is gone and every call of A and of B has
\* resolved to what the function returned.
C28_CallsComplete ==
  (Quiescent /\ sendMessageCB["A"] = "fn") =>
    /\ inactiveSendQueue["A"].null
    /\ \A e \in Ep : \A r \in 1..(nextRequestId[e] - 1) :
         promise[e][r].st = "resolved" /\ promise[e][r].code = "data"

\* The envelopes passed to A's send function are those handed to its send
\* path, each once, in the order of their arrival.
C28_ArrivalOrder == \A i \in 1..Len(sentLog["A"]) : sentLog["A"][i].n = i

\* C28: an endpoint without a send function passes nothing to a send
\* function; the calls made in that state stay pending and its responses to
\* the peer's calls are queued; once a send function is installed the queued
\* envelopes are emitted in the order of their arrival, each once, and the
\* calls complete.
C28_InactiveQueues ==
  C28_QueuedWhileInactive /\ []C28_ArrivalOrder /\ []C28_CallsComplete

\* The parts of C28 other than the order of the drain.
C28_QueuesAndCompletes == C28_QueuedWhileInactive /\ []C28_CallsComplete

\* A call of A and a response of A to a call of B were queued while A had
\* no send function; both were emitted in that order once a send function
\* was installed, and both calls have resolved.
C28_Witness ==
  /\ Quiescent /\ sendMessageCB["A"] = "fn" /\ ops = 3
  /\ Len(sentLog["A"]) = 2
  /\ sentLog["A"][1].mtype = "RpcCall" /\ sentLog["A"][2].mtype = "RpcRespData"
  /\ promise["A"][1].st = "resolved" /\ promise["B"][1].st = "resolved"

\* The entry that a registration of the given kind makes under name.
EntryOf(name, kind) ==
  CASE kind = "impl" -> ImplEntry(name, "none", {}, {"add"})
    [] kind = "checked" -> ImplEntry(name, "typed", {"add"}, {"add"})
    [] OTHER -> FuncEntry(name)

\* C29: registerImpl (with or without a checker) and registerFunc of a name
\* that B has registered already, by either of them, throw to the caller and
\* leave the registry as it is; of a name not registered they add the entry
\* and throw nothing, so a name that was unregistered can be registered
\* again.  unregisterImpl and unregisterFunc remove the entry of the name,
\* whichever call made it, throw nothing, and change nothing if there is
\* none.
C29_Registry ==
  [][\A name \in RegNames :
       /\ \A kind \in RegKinds :
            (Idle /\ ApiCall(register(Cur, "B", name, kind))) =>
              IF \E i \in implMap["B"] : i.name = name
              THEN thrown' = "Error" /\ caughtBy' = "caller" /\ implMap' = implMap
              ELSE /\ thrown' = ""
                   /\ implMap' = [implMap EXCEPT !["B"] = @ \cup {EntryOf(name, kind)}]
       /\ \A kind \in {"impl", "func"} :
            (Idle /\ ApiCall(unregister(Cur, "B", name, kind))) =>
              /\ thrown' = ""
              /\ ~\E i \in implMap["B"]' : i.name = name
              /\ \A i \in implMap["B"] : i.name # name => i \in implMap["B"]'
              /\ implMap["B"]' \subseteq implMap["B"]
              /\ (~\E i \in implMap["B"] : i.name = name) => implMap' = implMap
    ]_vars

\* "foo" was registered as a function; a second registration of "foo" has
\* just thrown and the function is still the one registered.
C29_Witness ==
  /\ ops = 2 /\ thrown = "Error" /\ caughtBy = "caller"
  /\ implMap["B"] = {FuncEntry("foo")}

\* "foo" was registered as a function and called; after it was unregistered
\* the name was registered again, for an object with a checker.
C29_WitnessAgain ==
  /\ ops = 4 /\ thrown = ""
  /\ Len(invokeLog["B"]) = 1
  /\ invokeLog["B"][1].call.data = "foo" /\ invokeLog["B"][1].call.meth = "invoke"
  /\ implMap["B"] = {EntryOf("foo", "checked")}

\* The interface and the forwarder that the name nm stands for: the text
\* before its last "@" and the text after it, or the whole name and no
\* forwarder if the name has no "@".
Meaning(nm) ==
  IF \A i \in 1..Len(nm) : nm[i] # "@"
  THEN {[iface |-> ToStr(nm), fwd |-> ""]}
  ELSE {[iface |-> ToStr(SubSeq(nm, 1, i - 1)), fwd |-> ToStr(SubSeq(nm, i + 1, Len(nm)))] :
          i \in {k \in 1..Len(nm) : nm[k] = "@" /\ \A j \in (k + 1)..Len(nm) : nm[j] # "@"}}

\* C30: a call made with callRemoteFunc(name), or through a method of
\* getStub(name), is the call that callRemoteFuncForward, or the stub of
\* getStubForward, makes with the text after the last "@" of the name as
\* the forwarder and the text before it as the interface (the whole name and
\* no forwarder if there is no "@"): the same envelope, the same pending
\* entry, the same state.  A call whose interface name is empty (a name with
\* a leading "@", with no interface registered under the empty name) is
\* answered RPC_UNKNOWN_INTERFACE by the endpoint that looks the interface
\* up and invokes nothing; if it was sent without forwarder or to the
\* forwarder that B has, A's promise is rejected with that code once the
\* endpoints have come to rest.
C30_NameSyntax ==
  /\ [][/\ \A nm \in Names : \A m \in Meaning(nm) :
            /\ (Quiescent /\ ApiCall(callRemoteFunc(Cur, "A", nm, "ok"))) =>
                 ApiCall(callRemoteFuncForward(Cur, "A", m.fwd, m.iface, "ok"))
            /\ (Quiescent /\ ApiCall(getStubCall(Cur, "A", nm, "greet", "ok"))) =>
                 ApiCall(stubCallForward(Cur, "A", m.fwd, m.iface, "greet", "ok"))
         /\ \A e \in Rpcs :
              Dispatches(e) =>
                LET c == Last(dispatchLog[e]') IN
                (c.mtype = "RpcCall" /\ c.mdest = "" /\ c.data = "") =>
                  /\ HandsOver(e, MsgRespErr(c.reqId, "RPC_UNKNOWN_INTERFACE",
                                             "Unknown interface"), {})
                  /\ invokeLog' = invokeLog
       ]_vars
  /\ [](Quiescent =>
          \A r \in 1..Len(CallsMade("A")) :
            (CallsMade("A")[r].data = "" /\ CallsMade("A")[r].mdest \in {"", "d"}) =>
              /\ promise["A"][r].st = "rejected"
              /\ promise["A"][r].code = "RPC_UNKNOWN_INTERFACE")

\* A called "f@d@d" and then "@d": the first call went to B with the
\* interface "f@d" and the forwarder "d" and was served by D's "f@d"; the
\* second, with the empty interface name, was rejected by D with
\* RPC_UNKNOWN_INTERFACE.
C30_Witness ==
  /\ Quiescent /\ Len(CallsMade("A")) = 2
  /\ CallsMade("A")[1].data = "f@d" /\ CallsMade("A")[1].mdest = "d"
  /\ CallsMade("A")[1].meth = "invoke"
  /\ Len(invokeLog["D"]) = 1 /\ invokeLog["D"][1].call.data = "f@d"
  /\ promise["A"][1].st = "resolved"
  /\ CallsMade("A")[2].data = "" /\ CallsMade("A")[2].mdest = "d"
  /\ Len(dispatchLog["D"]) = 2 /\ dispatchLog["D"][2].data = ""
  /\ promise["A"][2].st = "rejected" /\ promise["A"][2].code = "RPC_UNKNOWN_INTERFACE"

\* The inner functions that endpoint e's wrapper holds and has not invoked.
Kept(e) == {w \in wrapped : w.e = e}

\* In this step endpoint e makes the outgoing call (iface, meth, args,
\* fwdDest) as its constructor's callWrapper prescribes: plainCall makes the
\* call at once and no wrapper runs; a configured wrapper is called once,
\* with the inner function of this call, and the request id is taken and
\* the Call handed over in this step only if the wrapper invokes the inner
\* function in it.
MakesCall(e, iface, meth, args, fwdDest) ==
  LET made == /\ nextRequestId'[e] = nextRequestId[e] + 1
              /\ pendingCalls'[e] = pendingCalls[e] \cup {nextRequestId[e]}
              /\ HandsOver(e, MsgCall(nextRequestId[e], iface, meth, args, fwdDest), {})
      notMade == /\ nextRequestId'[e] = nextRequestId[e]
                 /\ pendingCalls'[e] = pendingCalls[e]
                 /\ handLog'[e] = handLog[e]
      once == /\ Len(wrapLog'[e]) = Len(wrapLog[e]) + 1
              /\ SubSeq(wrapLog'[e], 1, Len(wrapLog[e])) = wrapLog[e]
              /\ LET w == Last(wrapLog'[e]) IN
                 /\ w.iface = iface /\ w.meth = meth /\ w.args = args
                 /\ w.fwdDest = fwdDest
  IN CASE callWrapper[e] = "plainCall" -> wrapLog'[e] = wrapLog[e] /\ made
       [] callWrapper[e] = "now" -> once /\ made
       [] OTHER -> once /\ notMade /\ Cardinality(Kept(e)') = Cardinality(Kept(e)) + 1

\* What the steps of the endpoints do with the wrapper.
WrapperSteps ==
  /\ \A fwdDest \in {"", "d"} :
       ApiCall(callRemoteFuncForward(Cur, "A", fwdDest, "f", "ok")) =>
         MakesCall("A", "f", "invoke", "ok", fwdDest)
  /\ ApiCall(checkedStubCall(Cur, "A", "calc", "add", "ok")) =>
       MakesCall("A", "calc", "add", "ok", "")
  /\ ApiCall(stubCall(Cur, "A", "calc", "add", "ok")) =>
       MakesCall("A", "calc", "add", "ok", "")
  /\ (Dispatches("B") /\ Last(dispatchLog["B"]').mtype = "RpcCall"
        /\ Last(dispatchLog["B"]').mdest = "d") =>
       LET c == Last(dispatchLog["B"]') IN
       MakesCall("C", c.data, c.meth, c.args, "")
  /\ \A e \in {"A", "C"} :
       nextRequestId'[e] # nextRequestId[e] =>
         \/ callWrapper[e] = "plainCall"
         \/ callWrapper[e] = "now" /\ Len(wrapLog'[e]) = Len(wrapLog[e]) + 1
         \/ \E w \in Kept(e) :
              /\ wrapped' = wrapped \ {w} /\ wrapLog' = wrapLog
              /\ HandsOver(e, MsgCall(nextRequestId[e], w.iface, w.meth, w.args,
                                      w.fwdDest), {})

\* C31: every outgoing call, made by callRemoteFunc(Forward), by a method
\* of a checked or an unchecked stub, or by forwardCall for a forwarder,
\* calls the configured callWrapper exactly once; the request id is taken
\* and the Call envelope made only when the wrapper invokes the inner
\* function (at once, later, or never); an endpoint constructed without a
\* wrapper makes the call directly.  So each request id of a wrapped
\* endpoint belongs to one call of the wrapper, and the calls of the
\* wrapper are the request ids taken and the inner functions still kept.
C31_CallWrapper ==
  /\ [][WrapperSteps]_vars
  /\ [](\A e \in Rpcs :
          IF callWrapper[e] = "plainCall"
          THEN wrapLog[e] = <<>> /\ Kept(e) = {}
          ELSE /\ Len(wrapLog[e]) = (nextRequestId[e] - 1) + Cardinality(Kept(e))
               /\ Len(CallsMade(e)) = nextRequestId[e] - 1)

\* The wrappers of A and C keep the inner function for later: A has called
\* "f" through the forwarder "d", A's wrapper has run once and invoked the
\* inner function in a later task, B has given the call to C, whose wrapper
\* has run once and invoked its inner function, and the call has been
\* answered.
C31_Witness ==
  /\ Quiescent /\ callWrapper["A"] = "later" /\ callWrapper["C"] = "later"
  /\ Len(wrapLog["A"]) = 1 /\ wrapLog["A"][1].fwdDest = "d" /\ wrapped = {}
  /\ Len(wrapLog["C"]) = 1 /\ wrapLog["C"][1].iface = "f"
  /\ nextRequestId["A"] = 2 /\ nextRequestId["C"] = 2
  /\ promise["A"][1].st = "resolved"

\* A's wrapper has been called for a method of the checked stub and has not
\* invoked the inner function: no request id is taken and no envelope made.
C31_WitnessKept ==
  /\ callWrapper["A"] = "later" /\ Len(wrapLog["A"]) = 1
  /\ wrapLog["A"][1].chk = "typed" /\ Cardinality(Kept("A")) = 1
  /\ nextRequestId["A"] = 1 /\ handLog["A"] = <<>> /\ pendingCalls["A"] = {}

\* C32: an endpoint's send function is never called while an earlier call of
\* that endpoint's send function has not returned.
C32_SendNotReentered ==
  \A i, j \in 1..Len(stack) :
    (i < j /\ stack[i].k = "send" /\ stack[j].k = "send") => stack[i].e # stack[j].e

\* With a channel that hands every envelope over in a task of its own, no
\* send function is ever running when another one is called.
C32_OneSendAtATime ==
  Cardinality({i \in 1..Len(stack) : stack[i].k = "send"}) <= 1

CheckCodes == {"RPC_UNKNOWN_INTERFACE", "RPC_UNKNOWN_METHOD", "RPC_INVALID_ARGS"}

\* C33: an endpoint that forwards does not validate the call.  When B
\* dispatches a Call for its forwarder "d", whatever the interface, the
\* method and the arguments are, C makes the call with the same interface,
\* method and arguments, and B answers nothing, reports nothing and invokes
\* nothing of its own in that step.  B never reports one of the codes
\* RPC_UNKNOWN_INTERFACE, RPC_UNKNOWN_METHOD, RPC_INVALID_ARGS, and every
\* error response of B with such a code repeats, for the same call of A, an
\* error response that the terminal endpoint D made with that code.
C33_ForwarderDoesNotCheck ==
  /\ [][(Dispatches("B") /\ Last(dispatchLog["B"]').mtype = "RpcCall"
           /\ Last(dispatchLog["B"]').mdest = "d") =>
          LET c == Last(dispatchLog["B"]') IN
          /\ HandsOver("C", MsgCall(nextRequestId["C"], c.data, c.meth, c.args, ""), {})
          /\ handLog'["B"] = handLog["B"]
          /\ warnLog'["B"] = warnLog["B"]
          /\ invokeLog'["B"] = invokeLog["B"]
       ]_vars
  /\ [](/\ \A i \in 1..Len(warnLog["B"]) : warnLog["B"][i] \notin CheckCodes
        /\ \A i \in 1..Len(handLog["B"]) :
             LET m == handLog["B"][i] IN
             (m.mtype = "RpcRespErr" /\ m.data \in CheckCodes) =>
               \E f \in fwdLog, j \in 1..Len(handLog["D"]) :
                 /\ f.e = "B" /\ f.call.reqId = m.reqId /\ f.req # 0
                 /\ handLog["D"][j].mtype = "RpcRespErr"
                 /\ handLog["D"][j].reqId = f.req
                 /\ handLog["D"][j].data = m.data /\ handLog["D"][j].mesg = m.mesg
                 /\ m.data \in {warnLog["D"][k] : k \in 1..Len(warnLog["D"])})

\* A has called additionify of "calc" through the forwarder with arguments
\* that B's own checker would refuse: B has passed the call on, the terminal
\* endpoint D has answered RPC_UNKNOWN_METHOD, B has reported the error of
\* the forwarded call only, and A's promise is rejected with D's code.
C33_Witness ==
  /\ Quiescent /\ Len(CallsMade("A")) = 1
  /\ CallsMade("A")[1].data = "calc" /\ CallsMade("A")[1].meth = "additionify"
  /\ CallsMade("A")[1].args = "bad" /\ CallsMade("A")[1].mdest = "d"
  /\ Len(CallsMade("C")) = 1 /\ CallsMade("C")[1].meth = "additionify"
  /\ CallsMade("C")[1].args = "bad"
  /\ warnLog["D"] = <<"RPC_UNKNOWN_METHOD">> /\ warnLog["B"] = <<"RPC_ONCALL_ERROR">>
  /\ promise["A"][1].st = "rejected" /\ promise["A"][1].code = "RPC_UNKNOWN_METHOD"

\* The responses among the envelopes that endpoint e has handed to its send
\* path.
Responses(e) ==
  SelectSeq(handLog[e], LAMBDA m : m.mtype \in {"RpcRespData", "RpcRespErr"})

\* C34: a responder (B, D or F, each of which receives calls with a reqId)
\* makes at most one response, a RespData or a RespErr, for a call it has
\* received, and every response carries the reqId of a call received.  The
\* step that invokes the implementation, or makes the forwarded call, sends
\* no response: the response is sent in a later step, when the promise that
\* _onMessageCall awaits has settled, and by the handler that awaited it.
C34_OneResponse ==
  /\ [](\A e \in {"B", "D", "F"} :
          /\ \A i, j \in 1..Len(Responses(e)) :
               Responses(e)[i].reqId = Responses(e)[j].reqId => i = j
          /\ \A i \in 1..Len(Responses(e)) :
               /\ Responses(e)[i].reqId # 0
               /\ \E k \in 1..Len(dispatchLog[e]) :
                    /\ dispatchLog[e][k].mtype = "RpcCall"
                    /\ dispatchLog[e][k].reqId = Responses(e)[i].reqId)
  /\ [][\A e \in {"B", "D", "F"} :
          Len(Responses(e)') # Len(Responses(e)) =>
            LET m == Last(Responses(e)') IN
            /\ Len(Responses(e)') = Len(Responses(e)) + 1
            /\ \/ /\ Dispatches(e) /\ Last(dispatchLog[e]').reqId = m.reqId
                  /\ implPromises' = implPromises /\ invokeLog' = invokeLog
                  /\ fwdLog' = fwdLog /\ m.mtype = "RpcRespErr"
               \/ \E p \in implPromises :
                    /\ p.e = e /\ p.call.reqId = m.reqId /\ Awaited(Cur, p)
                    /\ implPromises' = implPromises \ {p}
                    /\ ~Dispatches(e)
                    /\ m.mtype = IF Outcome(Cur, p).throws THEN "RpcRespErr"
                                 ELSE "RpcRespData"
       ]_vars

\* B has answered two calls of A, each once and under its reqId: the first,
\* forwarded through C, after the forwarded call had been answered by D with
\* an error, the second after its own implementation had returned.
C34_Witness ==
  /\ Quiescent /\ Len(CallsMade("A")) = 2 /\ Len(Responses("B")) = 2
  /\ CallsMade("A")[1].mdest = "d" /\ CallsMade("A")[2].mdest = ""
  /\ \E i, j \in 1..2 :
       /\ Responses("B")[i].reqId = 1 /\ Responses("B")[i].mtype = "RpcRespErr"
       /\ Responses("B")[j].reqId = 2 /\ Responses("B")[j].mtype = "RpcRespData"
  /\ Len(Responses("D")) = 1 /\ Len(invokeLog["B"]) = 1

\* A is at rest with a send function installed, not waiting for Ready, and
\* with its outbound queue still in place: the state a drain leaves behind
\* when the send function threw in it.
KeepsQueueing ==
  /\ Idle /\ sendMessageCB["A"] = "fn" /\ ~waitForReadyMessage["A"]
  /\ ~inactiveSendQueue["A"].null

\* What a step does that starts with A in that state.
StepWhileQueueing ==
  LET q == inactiveSendQueue["A"].items IN
  /\ sentLog'["A"] = sentLog["A"]
  /\ handLog'["A"] # handLog["A"] =>
       LET m == Last(handLog'["A"]) IN
       /\ Len(handLog'["A"]) = Len(handLog["A"]) + 1
       /\ ~inactiveSendQueue'["A"].null
       /\ inactiveSendQueue'["A"].items = Append(q, m)
       /\ stack' = <<>>
       /\ m.mtype = "RpcCall" =>
            m.reqId \in pendingCalls'["A"] /\ promise'["A"][m.reqId].st = "pending"
  /\ stack' # <<>> =>
       /\ Len(stack') = 1 /\ Top(stack').k = "drainOut"
       /\ inactiveSendQueue'["A"].items = q
       /\ \/ ApiCall(setSendMessage(Cur, "A", "fn"))
          \/ /\ Len(recvLog'["A"]) = Len(recvLog["A"]) + 1
             /\ Last(recvLog'["A"]).mtype = "Ready"
  /\ \A r \in pendingCalls["A"] :
       (HasCall(q, r) /\ recvLog'["A"] = recvLog["A"]) =>
         r \in pendingCalls'["A"] /\ promise'["A"][r].st = "pending"

AllEmitted ==
  \A i \in 1..Len(handLog["A"]) :
    \E j \in 1..Len(sentLog["A"]) : sentLog["A"][j] = handLog["A"][i]

\* A Ready is dispatched while A waits for Ready and has no send function.
ReadyWithoutSend ==
  /\ ReadyDispatched /\ waitForReadyMessage["A"] /\ sendMessageCB["A"] = "null"

\* A, at rest, not waiting and without a send function, is given one.
InstallAfterReady ==
  /\ Idle /\ ~waitForReadyMessage["A"] /\ sendMessageCB["A"] = "null"
  /\ ApiCall(setSendMessage(Cur, "A", "fn"))

\* The send function throws in a drain that the Ready case of _dispatch
\* started.
ThrowInReadyDrain ==
  /\ TopIs("send") /\ Top(stack).origin = "drain"
  /\ Len(stack) > 1 /\ stack[Len(stack) - 1].k = "drainOut"
  /\ stack[Len(stack) - 1].swallow
  /\ thrown' = "RPC_SEND_FAILED"

\* What the steps of C36 do.
ReadySteps ==
  /\ ReadyWithoutSend =>
       /\ ~waitForReadyMessage'["A"]
       /\ sentLog' = sentLog /\ handLog' = handLog
       /\ inactiveSendQueue' = inactiveSendQueue
       /\ ~inactiveSendQueue["A"].null
       /\ stack' = stack /\ errorEvents' = errorEvents /\ thrown' = ""
  /\ InstallAfterReady =>
       /\ Len(stack') = 1 /\ Top(stack').k = "drainOut" /\ Top(stack').i = 0
       /\ inactiveSendQueue' = inactiveSendQueue /\ sentLog' = sentLog
  /\ ThrowInReadyDrain =>
       /\ caughtBy' = "_dispatch"
       /\ errorEvents'["A"] = errorEvents["A"] + 1
       /\ stack' = SubSeq(stack, 1, Len(stack) - 2)

\* C36: a Ready dispatched while A waits for Ready and has no send function
\* ends the wait and nothing else: nothing is passed to a send function, the
\* queue is as it was, no drain starts.  The next setSendMessage(fn) starts
\* a drain at the first queued envelope, and as long as no send has failed,
\* once the queue is gone every envelope handed over has been passed to the
\* send function.  When the send function throws in a drain that a Ready
\* started, the error ends in _dispatch, so receiveMessage returns
\* normally: the drain is over, one "error" event has been emitted (and the
\* call, if the envelope was one, rejected as for any failed send).
C36_ReadyWithoutSend ==
  /\ [][ReadySteps]_vars
  /\ []((Idle /\ inactiveSendQueue["A"].null /\ errorEvents["A"] = 0) => AllEmitted)

\* The state in which A, having gated its traffic without a send function
\* and queued a message, has received a Ready and then the send function:
\* the wait is over, the drain that setSendMessage started has passed the
\* message to the function, and the queue is gone.
C36_Witness ==
  /\ Idle /\ inactiveSendQueue["A"].null /\ errorEvents["A"] = 0
  /\ ~waitForReadyMessage["A"] /\ sendMessageCB["A"] = "fn"
  /\ Len(recvLog["A"]) = 1 /\ recvLog["A"][1].mtype = "Ready"
  /\ Len(sentLog["A"]) = 1 /\ sentLog["A"] = handLog["A"]
  /\ sentLog["A"][1].mtype = "Custom"
  /\ ops = 4

\* A Ready has started a drain in which the send function threw: the error
\* was swallowed by _dispatch and an "error" event emitted.
C36_WitnessSwallowed ==
  /\ thrown = "RPC_SEND_FAILED" /\ caughtBy = "_dispatch" /\ errorEvents["A"] = 1
  /\ Idle /\ Len(sentLog["A"]) = 1

\* The forwardings made for the call r of A: by B for the call itself, by D
\* for the call that C made for B.
HopsOf(r) ==
  LET atB == {f \in fwdLog : f.e = "B" /\ f.call.reqId = r}
      atD == {f \in fwdLog : f.e = "D" /\ \E g \in atB : f.call.reqId = g.req}
  IN atB \cup atD

\* An error response under reqId, made by endpoint e.
ErrorsOf(e, reqId) ==
  {m \in {handLog[e][i] : i \in 1..Len(handLog[e])} :
     m.mtype = "RpcRespErr" /\ m.reqId = reqId}

\* The send of the call forwarded in f threw.
SendFailed(f) ==
  /\ promise[f.dest][f.req].st = "rejected"
  /\ promise[f.dest][f.req].code = "RPC_SEND_FAILED"

\* The errors raised for the call r of A after it left A: the rejection of
\* a forwarded call whose send failed; and the error response of the
\* endpoint that received the call, or the call made for it, and did not
\* forward it.  A send function may throw after it has passed the message
\* on: what the endpoints behind it answer then comes too late, and the
\* error of the call is the failed send.
Raised(r) ==
  LET ok == {f \in HopsOf(r) : ~SendFailed(f)}
      got == IF \E f \in HopsOf(r) : f.e = "B" /\ SendFailed(f)
             THEN {}
             ELSE {[e |-> "B", reqId |-> r]}
                    \cup {[e |-> Peer(f.dest), reqId |-> f.req] : f \in ok}
      last == {x \in got : \A f \in HopsOf(r) : ~(f.e = x.e /\ f.call.reqId = x.reqId)}
  IN {[code |-> m.data, mesg |-> m.mesg] :
        m \in UNION {ErrorsOf(x.e, x.reqId) : x \in last}}
     \cup {[code |-> promise[f.dest][f.req].code, mesg |-> promise[f.dest][f.req].mesg] :
             f \in {g \in HopsOf(r) :
                     /\ SendFailed(g)
                     /\ \A h \in HopsOf(r) : h.req = g.call.reqId /\ h.e = "B" => ~SendFailed(h)}}

\* C37: in a chain of forwarders, once the endpoints have come to rest, no
\* call is pending anywhere; a forwarding endpoint has answered the call it
\* served with an error response that repeats code and message of the
\* rejection of the call made for it; and the promise of A's call is
\* rejected with the code and the message of the error that was raised for
\* it further on, be it a check that the terminal endpoint reported, the
\* error of its implementation, an unknown forward destination downstream,
\* or the failed send of a forwarded call.
C37_ErrorsTravelBack ==
  Quiescent =>
    /\ \A e \in Rpcs : pendingCalls[e] = {}
    /\ \A f \in fwdLog :
         LET p == promise[f.dest][f.req] IN
         p.st = "rejected" =>
           ErrorsOf(f.e, f.call.reqId) =
             {[MsgRespErr(f.call.reqId, p.code, p.mesg) EXCEPT !.n = m.n] :
                m \in ErrorsOf(f.e, f.call.reqId)}
           /\ ErrorsOf(f.e, f.call.reqId) # {}
    /\ \A r \in 1..Len(CallsMade("A")) :
         /\ promise["A"][r].st \in {"resolved", "rejected"}
         /\ \A x \in Raised(r) :
              /\ promise["A"][r].st = "rejected"
              /\ promise["A"][r].code = x.code /\ promise["A"][r].mesg = x.mesg

\* Two hops: F refused the arguments of A's first call, and E's send of the
\* second failed; A's promises are rejected with RPC_INVALID_ARGS and with
\* RPC_SEND_FAILED.
C37_Witness ==
  /\ Quiescent /\ Len(CallsMade("A")) = 2
  /\ warnLog["F"] = <<"RPC_INVALID_ARGS">>
  /\ promise["A"][1].st = "rejected" /\ promise["A"][1].code = "RPC_INVALID_ARGS"
  /\ promise["A"][1].mesg = "is not a number"
  /\ promise["E"][2].st = "rejected" /\ promise["E"][2].code = "RPC_SEND_FAILED"
  /\ Len(dispatchLog["F"]) = 1
  /\ promise["A"][2].st = "rejected" /\ promise["A"][2].code = "RPC_SEND_FAILED"
  /\ promise["A"][2].mesg = SendFailedMesg

\* B passes the fwdDest through and D has no forwarder for it, and then an
\* implementation at the end of the chain throws.
C37_WitnessDownstream ==
  /\ Quiescent
  /\ \E r \in 1..Len(CallsMade("A")) :
       /\ warnLog["D"] = <<"RPC_UNKNOWN_FORWARD_DEST">>
       /\ promise["A"][r].st = "rejected"
       /\ promise["A"][r].code = "RPC_UNKNOWN_FORWARD_DEST"
       /\ promise["A"][r].mesg = "Unknown forward destination"

\* postMessage was called while A was queueing: its envelope, the n-th
\* handed to _sendMessage, is new in the queue.
PostedWhileQueueing(n) ==
  /\ ~inactiveSendQueue["A"].null
  /\ Len(handLog["A"]) = n - 1 /\ Len(handLog'["A"]) = n
  /\ handLog'["A"][n].mtype = "Custom"

\* The send function threw on a posted envelope that a drain passed to it.
PostFailsInDrain ==
  /\ TopIs("send") /\ Top(stack).origin = "drain"
  /\ Top(stack).msg.mtype = "Custom"
  /\ thrown' = "RPC_SEND_FAILED"

PostSteps ==
  /\ \A n \in 1..Len(handLog'["A"]) :
       /\ PostedWhileQueueing(n) =>
            /\ postPromise'["A"][n] = "resolved"
            /\ \A i \in 1..Len(sentLog'["A"]) : sentLog'["A"][i].n # n
       /\ n <= Len(handLog["A"]) /\ postPromise["A"][n] = "resolved" =>
            postPromise'["A"][n] = "resolved"
  /\ PostFailsInDrain =>
       /\ postPromise'["A"][Top(stack).msg.n] = "resolved"
       /\ errorEvents'["A"] = errorEvents["A"] + 1
       /\ caughtBy' \in {"caller", "_dispatch"}
       /\ pendingCalls' = pendingCalls /\ promise' = promise

\* C38: the promise of a postMessage made while A is queueing is resolved
\* at once, before its envelope has been passed to the send function, and
\* stays resolved in every later step; when the send function throws on
\* that envelope in a drain, the promise is still resolved, an "error"
\* event is emitted, the error goes to the caller of the drain, and no
\* pending call and no promise of a call changes.
C38_PostWhileQueueing == [][PostSteps]_vars

\* The second of two messages posted while queueing: its promise is
\* resolved, the drain that setSendMessage started passed it to the send
\* function, which threw, and setSendMessage's caller has the error.
C38_Witness ==
  /\ Idle /\ thrown = "RPC_SEND_FAILED" /\ caughtBy = "caller"
  /\ Len(sentLog["A"]) = 2 /\ sentLog["A"][2].mtype = "Custom"
  /\ postPromise["A"][sentLog["A"][2].n] = "resolved"
  /\ errorEvents["A"] = 1
  /\ pendingCalls["A"] # {}

\* Node n can pass on a message for endpoint d: d is attached to n, or n
\* has a route to it.
Routable(n, d) == (\E me \in mine[n] : me.name = d) \/ steps[n][d] # NoStep

\* The messages a node or a link holds, and the calls being served.
Held ==
  UNION {{queue[n][i] : i \in 1..Len(queue[n])} : n \in Nodes}
    \cup UNION {{inFlight[l][i] : i \in 1..Len(inFlight[l])} : l \in LinkPairs}

\* The call reqId of endpoint name is on its way: its RpcCall is held for
\* the target, the target's Rpc serves it, or its response is held for name.
OnItsWay(name, reqId) ==
  \/ \E m \in Held : /\ m.reqId = reqId
                      /\ \/ m.mtype = "RpcCall" /\ m.msgEnvelope.srcEndpoint = name
                         \/ m.mtype = "RpcRespData" /\ m.msgEnvelope.destEndpoint = name
  \/ \E c \in serving : c.reqId = reqId /\ c.altEnv.destEndpoint = name

\* Nothing a node holds in its queue is routable, and no call is lost.
NodeQueueInv ==
  /\ \A n \in Nodes : \A i \in 1..Len(queue[n]) :
       ~Routable(n, queue[n][i].msgEnvelope.destEndpoint)
  /\ \A name \in EndpointNames : \A r \in 1..Len(asked[name]) :
       asked[name][r] = "pending" => OnItsWay(name, r)

\* A queued message stays in the queue, behind the messages queued before
\* it, as long as the node cannot route it; when it leaves the queue it is
\* with the link of the route, or the endpoint attached has received it.
NodeQueueSteps ==
  \A n \in Nodes :
    LET d(m) == m.msgEnvelope.destEndpoint
        obtained == {e \in EndpointNames : Routable(n, e)' /\ ~Routable(n, e)}
        kept == SelectSeq(queue[n], LAMBDA m : d(m) \notin obtained)
    IN /\ Len(queue'[n]) >= Len(kept)
       /\ SubSeq(queue'[n], 1, Len(kept)) = kept
       /\ \A i \in 1..Len(queue[n]) :
            LET m == queue[n][i] IN
            d(m) \in obtained =>
              \/ /\ steps'[n][d(m)] # NoStep
                 /\ \E j \in 1..Len(inFlight'[<<n, steps'[n][d(m)].link>>]) :
                      inFlight'[<<n, steps'[n][d(m)].link>>][j] = m
              \/ /\ \E me \in mine'[n] : me.name = d(m)
                 /\ \/ /\ m.mtype = "RpcCall"
                       /\ \E c \in serving' \ serving : c.node = n /\ c.reqId = m.reqId
                    \/ /\ m.mtype = "RpcRespData"
                       /\ asked'[d(m)][m.reqId] = "resolved"

C39_WitnessQueued ==
  /\ Len(queue["node3"]) = 1 /\ queue["node3"][1].mtype = "RpcCall"
  /\ ~Routable("node3", "backend")

\* Two calls made on node1 before "backend" was attached to it waited in
\* node1's queue; the endpoint is attached, and both are answered.
C39_WitnessLocal ==
  /\ asked[ReturnName("node1", "backend")] = <<"resolved", "resolved">>
  /\ queue["node1"] = <<>>
  /\ \E me \in mine["node1"] : me.name = "backend"

====
